---- MODULE Spec2Model ----
(***************************************************************************)
(* Verification model of the DeepBook order clean-up tools                 *)
(* (Simon-vibe/crypto-tools): the library service src/src/deepbook-service *)
(* .ts, the janitor bot src/deepbook-janitor and the example runners.      *)
(*                                                                         *)
(* Each component of the program is one record-valued variable.  Each      *)
(* specification below drives one component and leaves the others idle.    *)
(***************************************************************************)
EXTENDS Integers, Sequences, FiniteSets, TLC

VARIABLES builder, scan, rebate, pager, bot, runner, ui

vars == <<builder, scan, rebate, pager, bot, runner, ui>>

(***************************************************************************)
(* Bounds of the model.                                                    *)
(***************************************************************************)
MaxLen == 3

MaxOrderId == 2

MaxReq == 4

(***************************************************************************)
(* Generic helpers.                                                        *)
(***************************************************************************)
Min(a, b) == IF a < b THEN a ELSE b

Max(a, b) == IF a > b THEN a ELSE b

\* An optional value (a TypeScript `T | undefined`) is a sequence of length <= 1.
None == <<>>

Some(x) == <<x>>

IsSome(o) == Len(o) = 1

Idle == [pc |-> "idle"]

\* Array.prototype.slice(start, end) for integer arguments.
SliceOffByOne(s, start, end) ==
    LET len == Len(s)
        k == IF start < 0 THEN Max(len + start, 0) ELSE Min(start, len)
        final == IF end < 0 THEN Max(len + end, 0) ELSE Min(end - 1, len)
    IN  [j \in 1..Max(final - k, 0) |-> s[k + j]]

Slice(s, start, end) ==
    LET len == Len(s)
        k == IF start < 0 THEN Max(len + start, 0) ELSE Min(start, len)
        final == IF end < 0 THEN Max(len + end, 0) ELSE Min(end, len)
    IN  [j \in 1..Max(final - k, 0) |-> s[k + j]]

(***************************************************************************)
(* CleanupBatchBuilder: buildCleanUpTransaction and                        *)
(* buildPublicCleanupTransaction of the library service.                   *)
(***************************************************************************)
MAX_COMMANDS_PER_PTB == 1024

DEFAULT_MAX_ORDERS_PER_TRANSACTION == 100

DEFAULT_GAS_BUDGET == 100000000

BuilderFns == {"buildCleanUpTransaction", "buildPublicCleanupTransaction"}

\* The move-call target each builder renders.
MoveTarget(fn) ==
    IF fn = "buildCleanUpTransaction" THEN "pool::cancel_order"
    ELSE "pool::clean_up_expired_order"

\* const safeMaxOrders = Math.min(maxOrdersPerTransaction, MAX_COMMANDS_PER_PTB)
SafeMaxOrdersUnclamped(maxOrdersPerTransaction) == maxOrdersPerTransaction

SafeMaxOrders(maxOrdersPerTransaction) ==
    Min(maxOrdersPerTransaction, MAX_COMMANDS_PER_PTB)

\* A rendering that spends one more command per transaction than it has orders.
BuildSingleTransactionExtraCommand(fn, batchOrders, gasBudget) ==
    [gasBudget |-> gasBudget,
     commands |-> [k \in 1..(Len(batchOrders) + 1) |->
                    [target |-> MoveTarget(fn),
                     orderId |-> batchOrders[IF k = 1 THEN 1 ELSE k - 1]]]]

\* buildSingleCleanupTransaction / buildSinglePublicCleanupTransaction:
\* one move call per order of the batch, in the batch's order.
BuildSingleTransaction(fn, batchOrders, gasBudget) ==
    [gasBudget |-> gasBudget,
     commands |-> [k \in 1..Len(batchOrders) |->
                    [target |-> MoveTarget(fn), orderId |-> batchOrders[k]]]]

TxOrderIds(tx) == [k \in 1..Len(tx.commands) |-> tx.commands[k].orderId]

RECURSIVE ConcatOrderIds(_)
ConcatOrderIds(txs) ==
    IF txs = <<>> THEN <<>>
    ELSE TxOrderIds(Head(txs)) \o ConcatOrderIds(Tail(txs))

OrderIds == 1..MaxOrderId

ShortOrderLists == UNION {[1..n -> OrderIds] : n \in 0..MaxLen}

\* Lists around and above the platform ceiling, with distinct identifiers.
LongOrderLists ==
    {[k \in 1..n |-> k] :
        n \in {MAX_COMMANDS_PER_PTB + d : d \in 0..MaxLen}
              \cup {2 * MAX_COMMANDS_PER_PTB + 1}}

LongRequests == {MAX_COMMANDS_PER_PTB - 1 + d : d \in 0..MaxReq}

BuilderInputs ==
    (ShortOrderLists \X ({None} \cup {Some(m) : m \in 1..MaxReq}))
    \cup (LongOrderLists \X {Some(m) : m \in LongRequests})

\* The model follows the loop of a builder for at most this many iterations,
\* one more than the longest short order list needs.
MaxIterations == MaxLen + 1

\* The builder at its entry.
BuilderCall(fn, orders, options) ==
    [pc |-> "call", fn |-> fn, orders |-> orders, options |-> options,
     maxOrdersPerTransaction |-> 0, safeMaxOrders |-> 0, i |-> 0,
     transactions |-> <<>>]

BuilderInit ==
    \E fn \in BuilderFns, inp \in BuilderInputs :
        builder = BuilderCall(fn, inp[1], inp[2])

\* Entry of the builder: option defaults, the empty-list early return, the
\* clamp to the platform ceiling.
BuildEnter ==
    /\ builder.pc = "call"
    /\ LET m == IF IsSome(builder.options) THEN builder.options[1]
                ELSE DEFAULT_MAX_ORDERS_PER_TRANSACTION
       IN  IF Len(builder.orders) = 0
           THEN builder' = [builder EXCEPT !.pc = "done",
                                           !.maxOrdersPerTransaction = m]
           ELSE builder' = [builder EXCEPT !.pc = "loop",
                                           !.maxOrdersPerTransaction = m,
                                           !.safeMaxOrders = SafeMaxOrders(m),
                                           !.i = 0]
    /\ UNCHANGED <<scan, rebate, pager, bot, runner, ui>>

\* One iteration of `for (let i = 0; i < orders.length; i += safeMaxOrders)`.
BuildLoopStep ==
    /\ builder.pc = "loop"
    /\ builder.i < Len(builder.orders)
    /\ Len(builder.transactions) < MaxIterations
    /\ LET batchOrders == Slice(builder.orders, builder.i,
                                builder.i + builder.safeMaxOrders)
           tx == BuildSingleTransaction(builder.fn, batchOrders,
                                        DEFAULT_GAS_BUDGET)
       IN  builder' = [builder EXCEPT
                         !.transactions = Append(builder.transactions, tx),
                         !.i = builder.i + builder.safeMaxOrders]
    /\ UNCHANGED <<scan, rebate, pager, bot, runner, ui>>

\* Loop exit: `return transactions`.
BuildReturn ==
    /\ builder.pc = "loop"
    /\ ~(builder.i < Len(builder.orders))
    /\ builder' = [builder EXCEPT !.pc = "done"]
    /\ UNCHANGED <<scan, rebate, pager, bot, runner, ui>>

BuilderNext == BuildEnter \/ BuildLoopStep \/ BuildReturn

InitBuild ==
    /\ BuilderInit
    /\ scan = Idle /\ rebate = Idle /\ pager = Idle /\ bot = Idle
    /\ runner = Idle /\ ui = Idle

SpecBuild == InitBuild /\ [][BuilderNext]_vars

(***************************************************************************)
(* C1.  For every order list and every requestedMax >= 1, the order ids of *)
(* the returned transactions, concatenated in batch order, are exactly the *)
(* input list: nothing omitted, duplicated or reordered.                   *)
(***************************************************************************)
C1_BatchesPartitionInput ==
    builder.pc = "done" =>
        ConcatOrderIds(builder.transactions) = builder.orders

\* Witness: a multi-batch build has returned.
C1_Witness ==
    /\ builder.pc = "done"
    /\ Len(builder.transactions) >= 2
    /\ builder.orders = <<2, 1, 2>>

(***************************************************************************)
(* C2.  For a non-empty order list and requestedMax >= 1, every batch      *)
(* holds at most min(requestedMax, 1024) orders and every batch but the    *)
(* last holds exactly that many.                                           *)
(***************************************************************************)
C2_BatchSizes ==
    (builder.pc = "done" /\ Len(builder.orders) > 0) =>
        LET requestedMax == builder.maxOrdersPerTransaction
            effectiveMax == IF requestedMax < 1024 THEN requestedMax ELSE 1024
            txs == builder.transactions
        IN  \A k \in 1..Len(txs) :
                /\ Len(txs[k].commands) <= effectiveMax
                /\ k < Len(txs) => Len(txs[k].commands) = effectiveMax

\* Witness: the platform ceiling, not the request, bounds the batches.
C2_Witness ==
    /\ builder.pc = "done"
    /\ builder.maxOrdersPerTransaction > 1024
    /\ Len(builder.transactions) = 2
    /\ Len(builder.transactions[1].commands) = 1024
    /\ Len(builder.transactions[2].commands) = 1

(***************************************************************************)
(* RebateEstimator: calculateRebate of the library service.                *)
(***************************************************************************)
AVERAGE_STORAGE_DEPOSIT_MIST == 3000000

AVERAGE_REBATE_PER_OBJECT_MIST == 2970000

MIST_PER_SUI == 1000000000

\* mistToSui: Number(mist) / Number(MIST_PER_SUI), printed with 9 decimals.
\* The printed decimal is the pair (integer part, 9-digit fraction); exact for
\* the amounts of the model, which are far below 2^53.
MistToSui(mist) ==
    [whole |-> mist \div MIST_PER_SUI, frac |-> mist % MIST_PER_SUI]

\* order.storageRebate ?? STORAGE_COSTS.AVERAGE_REBATE_PER_OBJECT_MIST
RebateMistFromDeposit(order) ==
    IF IsSome(order.storageRebate) THEN order.storageRebate[1]
    ELSE AVERAGE_STORAGE_DEPOSIT_MIST

RebateMist(order) ==
    IF IsSome(order.storageRebate) THEN order.storageRebate[1]
    ELSE AVERAGE_REBATE_PER_OBJECT_MIST

\* orders.every(order => order.storageRebate !== undefined)
HasActualRebateSome(orders) ==
    \E k \in 1..Len(orders) : IsSome(orders[k].storageRebate)

HasActualRebate(orders) ==
    \A k \in 1..Len(orders) : IsSome(orders[k].storageRebate)

\* The accumulation loop `for (const order of orders)`: acc is the pair
\* (totalRebateMist, orderRebates) after the first k - 1 orders.
RECURSIVE RebateLoop(_, _, _)
RebateLoop(orders, k, acc) ==
    IF k > Len(orders) THEN acc
    ELSE LET rebateMist == RebateMist(orders[k])
         IN  RebateLoop(orders, k + 1,
                 [totalRebateMist |-> acc.totalRebateMist + rebateMist,
                  orderRebates |-> Append(acc.orderRebates,
                      [orderId |-> orders[k].orderId,
                       rebateMist |-> rebateMist,
                       rebateSui |-> MistToSui(rebateMist)])])

CalculateRebate(orders) ==
    IF Len(orders) = 0
    THEN [totalOrders |-> 0, totalRebateMist |-> 0,
          totalRebateSui |-> MistToSui(0), orderRebates |-> <<>>,
          isEstimated |-> FALSE]
    ELSE LET hasActualRebate == HasActualRebate(orders)
             acc == RebateLoop(orders, 1,
                        [totalRebateMist |-> 0, orderRebates |-> <<>>])
         IN  [totalOrders |-> Len(orders),
              totalRebateMist |-> acc.totalRebateMist,
              totalRebateSui |-> MistToSui(acc.totalRebateMist),
              orderRebates |-> acc.orderRebates,
              isEstimated |-> ~hasActualRebate]

\* storageRebate of an input order: absent, or an actual value in MIST.
StorageRebates ==
    {None, Some(0), Some(1), Some(AVERAGE_STORAGE_DEPOSIT_MIST)}

\* Orders are identified by their position, so identifiers are distinct.
RebateOrderLists ==
    UNION {{[k \in 1..n |-> [orderId |-> k, storageRebate |-> f[k]]] :
               f \in [1..n -> StorageRebates]} : n \in 0..MaxLen}

InitRebate ==
    /\ \E orders \in RebateOrderLists :
           rebate = [pc |-> "call", orders |-> orders,
                     result |-> CalculateRebate(<<>>)]
    /\ builder = Idle /\ scan = Idle /\ pager = Idle /\ bot = Idle
    /\ runner = Idle /\ ui = Idle

CalculateRebateCall ==
    /\ rebate.pc = "call"
    /\ rebate' = [rebate EXCEPT !.pc = "done",
                                !.result = CalculateRebate(rebate.orders)]
    /\ UNCHANGED <<builder, scan, pager, bot, runner, ui>>

SpecRebate == InitRebate /\ [][CalculateRebateCall]_vars

\* The exact integer sum of the per-order values of the first k orders, with
\* the fixed estimate 2,970,000 for an order without an actual value.
RECURSIVE ExactRebateSum(_, _)
ExactRebateSum(orders, k) ==
    IF k = 0 THEN 0
    ELSE ExactRebateSum(orders, k - 1)
         + (IF orders[k].storageRebate = <<>> THEN 2970000
            ELSE orders[k].storageRebate[1])

(***************************************************************************)
(* C5.  calculateRebate returns the exact integer sum of the per-order     *)
(* values (actual storageRebate when known, 2,970,000 otherwise);          *)
(* totalOrders is the input length and orderRebates has one entry per      *)
(* input order, in input order.                                            *)
(***************************************************************************)
C5_RebateTotalIsExactSum ==
    rebate.pc = "done" =>
        LET orders == rebate.orders
            res == rebate.result
        IN  /\ res.totalRebateMist = ExactRebateSum(orders, Len(orders))
            /\ res.totalOrders = Len(orders)
            /\ Len(res.orderRebates) = Len(orders)
            /\ \A k \in 1..Len(orders) :
                   /\ res.orderRebates[k].orderId = orders[k].orderId
                   /\ res.orderRebates[k].rebateMist =
                          ExactRebateSum(orders, k) - ExactRebateSum(orders, k - 1)

\* Witness: 3,000,000 + 3,000,000 + none gives 8,970,000.
C5_Witness ==
    /\ rebate.pc = "done"
    /\ Len(rebate.orders) = 3
    /\ rebate.orders[1].storageRebate = <<3000000>>
    /\ rebate.orders[2].storageRebate = <<3000000>>
    /\ rebate.orders[3].storageRebate = <<>>
    /\ rebate.result.totalRebateMist = 8970000

(***************************************************************************)
(* C6.  isEstimated is true iff at least one input order lacks an actual   *)
(* storageRebate; the empty input gives total 0, no per-order entries and  *)
(* isEstimated = false.                                                    *)
(***************************************************************************)
C6_IsEstimatedIffSomeMissing ==
    rebate.pc = "done" =>
        LET orders == rebate.orders
            res == rebate.result
        IN  /\ res.isEstimated <=>
                   (\E k \in 1..Len(orders) : orders[k].storageRebate = <<>>)
            /\ Len(orders) = 0 =>
                   /\ res.totalRebateMist = 0
                   /\ res.orderRebates = <<>>
                   /\ res.isEstimated = FALSE

\* Witness: a mixed input (one actual value, one missing) is reported estimated.
C6_Witness ==
    /\ rebate.pc = "done"
    /\ Len(rebate.orders) = 2
    /\ rebate.orders[1].storageRebate # <<>>
    /\ rebate.orders[2].storageRebate = <<>>
    /\ rebate.result.isEstimated

(***************************************************************************)
(* Expiry classification: the inline check of the janitor's scanSide and   *)
(* parseOrderData / isOrderExpired of the library service, applied to the  *)
(* same on-chain items.                                                    *)
(*                                                                         *)
(* Timestamps are unsigned UintBits-bit integers (64 in the program) and a *)
(* JavaScript number holds MantissaBits significant bits (53 in the        *)
(* program); both widths are scaled down together.                         *)
(***************************************************************************)
UintBits == 3

MantissaBits == 2

MaxItems == 2

RECURSIVE Pow2(_)
Pow2(n) == IF n = 0 THEN 1 ELSE 2 * Pow2(n - 1)

RECURSIVE BitLen(_)
BitLen(n) == IF n = 0 THEN 0 ELSE 1 + BitLen(n \div 2)

\* u64::MAX, the "never expires" sentinel.
U64Max == Pow2(UintBits) - 1

\* Number(x) of an unsigned integer: round to MantissaBits significant bits,
\* ties to even.
ToNumber(n) ==
    IF BitLen(n) <= MantissaBits THEN n
    ELSE LET shift == BitLen(n) - MantissaBits
             q == n \div Pow2(shift)
             r == n % Pow2(shift)
             half == Pow2(shift - 1)
             up == r > half \/ (r = half /\ q % 2 = 1)
         IN  (IF up THEN q + 1 ELSE q) * Pow2(shift)

\* Date.now() and the currentTimestamp option are JavaScript numbers.
RefTimes == {t \in 0..U64Max : ToNumber(t) = t}

\* Janitor, scanSide: `expireTimestamp > 0n && expireTimestamp < now` (BigInt).
InlineExpiredInclusive(expireTimestamp, now) ==
    expireTimestamp > 0 /\ expireTimestamp <= now

InlineExpired(expireTimestamp, now) ==
    expireTimestamp > 0 /\ expireTimestamp < now

\* Library, isOrderExpired(order, currentTimestamp): a missing or zero
\* expireTimestamp is falsy and never expires.
IsOrderExpiredFlipped(order, currentTimestamp) ==
    IF order.expireTimestamp = <<>> \/ order.expireTimestamp[1] = 0 THEN FALSE
    ELSE currentTimestamp < order.expireTimestamp[1]

IsOrderExpired(order, currentTimestamp) ==
    IF order.expireTimestamp = <<>> \/ order.expireTimestamp[1] = 0 THEN FALSE
    ELSE currentTimestamp > order.expireTimestamp[1]

\* Library, parseOrderData: expire_timestamp arrives as a decimal string (a
\* non-empty string is truthy, "0" included) and is converted with Number().
ParseOrderData(orderData) ==
    [orderId |-> orderData.order_id,
     expireTimestamp |->
         IF IsSome(orderData.expire_timestamp)
         THEN Some(ToNumber(orderData.expire_timestamp[1]))
         ELSE None]

\* Janitor, scanSide over the values of one slice: every item with an order_id
\* is converted with BigInt(item.expire_timestamp), which throws on a missing
\* field; the throw leaves scanSide and is caught by scanPoolForExpiredOrders.
RECURSIVE ScanSliceValues(_, _, _, _)
ScanSliceValues(values, k, now, orders) ==
    IF k > Len(values) THEN [threw |-> FALSE, orders |-> orders]
    ELSE LET item == values[k]
         IN  IF item.expire_timestamp = <<>>
             THEN [threw |-> TRUE, orders |-> orders]
             ELSE LET expireTimestamp == item.expire_timestamp[1]
                  IN  ScanSliceValues(values, k + 1, now,
                          IF InlineExpired(expireTimestamp, now)
                          THEN Append(orders,
                                   [orderId |-> item.order_id,
                                    expireTimestamp |-> ToNumber(expireTimestamp),
                                    isExpired |-> TRUE])
                          ELSE orders)

\* scanPoolForExpiredOrders of the janitor: the catch-all returns [].
JanitorScanResult(values, now) ==
    LET r == ScanSliceValues(values, 1, now, <<>>)
    IN  IF r.threw THEN <<>> ELSE r.orders

\* Array.prototype.filter.
RECURSIVE FilterExpired(_, _)
FilterExpired(orders, currentTimestamp) ==
    IF orders = <<>> THEN <<>>
    ELSE (IF IsOrderExpired(Head(orders), currentTimestamp)
          THEN <<Head(orders)>> ELSE <<>>)
         \o FilterExpired(Tail(orders), currentTimestamp)

\* Library scan, steps 2 and 3: parse every order of the tick, then filter.
LibraryAllOrders(values) == [k \in 1..Len(values) |-> ParseOrderData(values[k])]

LibraryFilteredOrders(allOrders, onlyExpired, currentTimestamp) ==
    IF onlyExpired THEN FilterExpired(allOrders, currentTimestamp)
    ELSE allOrders

\* Janitor, buildCleanupTransaction: one vector call over the first 50 orders.
MAX_PER_TX == 50

JanitorBuildCleanupTransaction(orders) ==
    LET chunk == Slice(orders, 0, MAX_PER_TX)
    IN  [gasBudget |-> DEFAULT_GAS_BUDGET,
         commands |-> <<[target |-> "deepbook::clean_up_expired_orders",
                         orderIds |-> [k \in 1..Len(chunk) |-> chunk[k].orderId]]>>]

\* The library builder as a function, for a clamp >= 1 (the loop of
\* BuildLoopStep run to its exit).
RECURSIVE BuildTransactions(_, _, _, _, _)
BuildTransactions(fn, orders, i, safeMaxOrders, transactions) ==
    IF ~(i < Len(orders)) THEN transactions
    ELSE BuildTransactions(fn, orders, i + safeMaxOrders, safeMaxOrders,
             Append(transactions,
                 BuildSingleTransaction(fn,
                     Slice(orders, i, i + safeMaxOrders), DEFAULT_GAS_BUDGET)))

\* buildPublicCleanupTransaction(result.orders, {maxOrdersPerTransaction: 50})
\* as the example runner calls it.
RUNNER_MAX_ORDERS_PER_TRANSACTION == 50

LibraryBuildCleanup(orders) ==
    IF Len(orders) = 0 THEN <<>>
    ELSE BuildTransactions("buildPublicCleanupTransaction",
             [k \in 1..Len(orders) |-> orders[k].orderId], 0,
             SafeMaxOrders(RUNNER_MAX_ORDERS_PER_TRANSACTION), <<>>)

RawTimestamps == {None} \cup {Some(t) : t \in 0..U64Max}

\* The values of one slice; order_id is the position, so ids are distinct.
SliceValues ==
    UNION {{[k \in 1..n |-> [order_id |-> k, expire_timestamp |-> f[k]]] :
               f \in [1..n -> RawTimestamps]} : n \in 1..MaxItems}

InitExpiry ==
    /\ \E values \in SliceValues, now \in RefTimes, onlyExpired \in BOOLEAN :
           scan = [values |-> values, now |-> now, onlyExpired |-> onlyExpired,
                   jPc |-> "scan", jThrew |-> FALSE, jOrders |-> <<>>,
                   jTx |-> <<>>,
                   lPc |-> "scan", allOrders |-> <<>>, filteredOrders |-> <<>>,
                   lTxs |-> <<>>]
    /\ builder = Idle /\ rebate = Idle /\ pager = Idle /\ bot = Idle
    /\ runner = Idle /\ ui = Idle

\* Janitor: scanPoolForExpiredOrders over the slice.
JanitorScan ==
    /\ scan.jPc = "scan"
    /\ scan' = [scan EXCEPT
                  !.jPc = "scanned",
                  !.jThrew = ScanSliceValues(scan.values, 1, scan.now, <<>>).threw,
                  !.jOrders = JanitorScanResult(scan.values, scan.now)]
    /\ UNCHANGED <<builder, rebate, pager, bot, runner, ui>>

\* Janitor: buildCleanupTransaction over a non-empty scan result.
JanitorBuild ==
    /\ scan.jPc = "scanned"
    /\ Len(scan.jOrders) > 0
    /\ scan' = [scan EXCEPT
                  !.jPc = "built",
                  !.jTx = <<JanitorBuildCleanupTransaction(scan.jOrders)>>]
    /\ UNCHANGED <<builder, rebate, pager, bot, runner, ui>>

\* Library: scanPoolForExpiredOrders, parse and filter.
LibraryScan ==
    /\ scan.lPc = "scan"
    /\ LET allOrders == LibraryAllOrders(scan.values)
       IN  scan' = [scan EXCEPT
                      !.lPc = "scanned",
                      !.allOrders = allOrders,
                      !.filteredOrders =
                          LibraryFilteredOrders(allOrders, scan.onlyExpired,
                                                scan.now)]
    /\ UNCHANGED <<builder, rebate, pager, bot, runner, ui>>

\* Library runner (which scans with onlyExpired: true):
\* buildPublicCleanupTransaction over result.orders, unless
\* result.expiredOrders === 0.
LibraryBuild ==
    /\ scan.lPc = "scanned"
    /\ scan.onlyExpired
    /\ Len(scan.filteredOrders) > 0
    /\ scan' = [scan EXCEPT !.lPc = "built",
                            !.lTxs = LibraryBuildCleanup(scan.filteredOrders)]
    /\ UNCHANGED <<builder, rebate, pager, bot, runner, ui>>

ExpiryNext == JanitorScan \/ JanitorBuild \/ LibraryScan \/ LibraryBuild

SpecExpiry == InitExpiry /\ [][ExpiryNext]_vars

\* The order ids of a list of order records.
IdsOf(orders) == {orders[j].orderId : j \in 1..Len(orders)}

\* The order ids carried by the janitor's vector-form transaction(s).
VectorTxIds(txs) ==
    UNION {UNION {{txs[t].commands[c].orderIds[j] :
                      j \in 1..Len(txs[t].commands[c].orderIds)} :
                  c \in 1..Len(txs[t].commands)} :
           t \in 1..Len(txs)}

\* The order ids carried by the library's scalar-form transactions.
ScalarTxIds(txs) ==
    UNION {{txs[t].commands[c].orderId : c \in 1..Len(txs[t].commands)} :
           t \in 1..Len(txs)}

(***************************************************************************)
(* C3.  An order is classified expired iff 0 < expireTimestamp <           *)
(* referenceTime (so 0 and referenceTime itself are not expired), in the   *)
(* janitor's inline check and in isOrderExpired alike, and the two checks  *)
(* agree on every pair they are both given.                                *)
(***************************************************************************)
C3_ExpiredIffStrictlyBetween ==
    LET values == scan.values
        now == scan.now
    IN  /\ (scan.jPc # "scan" /\ ~scan.jThrew) =>
               \A k \in 1..Len(values) :
                   k \in IdsOf(scan.jOrders) <=>
                       (0 < values[k].expire_timestamp[1]
                        /\ values[k].expire_timestamp[1] < now)
        /\ (scan.lPc # "scan" /\ scan.onlyExpired) =>
               \A k \in 1..Len(values) :
                   scan.allOrders[k].expireTimestamp # <<>> =>
                       (k \in IdsOf(scan.filteredOrders) <=>
                           (0 < scan.allOrders[k].expireTimestamp[1]
                            /\ scan.allOrders[k].expireTimestamp[1] < now))
        /\ (scan.jPc # "scan" /\ ~scan.jThrew
            /\ scan.lPc # "scan" /\ scan.onlyExpired) =>
               \A k \in 1..Len(values) :
                   scan.allOrders[k].expireTimestamp = values[k].expire_timestamp =>
                       (k \in IdsOf(scan.jOrders)
                            <=> k \in IdsOf(scan.filteredOrders))

\* Witness: of two orders, the one expiring exactly at the reference time is
\* kept out and the one expiring before it is returned, by both scans.
C3_Witness ==
    /\ scan.jPc # "scan" /\ scan.lPc # "scan" /\ scan.onlyExpired
    /\ Len(scan.values) = 2
    /\ scan.values[1].expire_timestamp = <<scan.now>>
    /\ scan.values[2].expire_timestamp # <<>>
    /\ scan.values[2].expire_timestamp[1] > 0
    /\ scan.values[2].expire_timestamp[1] < scan.now
    /\ IdsOf(scan.jOrders) = {2}
    /\ IdsOf(scan.filteredOrders) = {2}

(***************************************************************************)
(* C4.  An order whose expireTimestamp is the sentinel u64 max is never    *)
(* classified expired, whatever the reference time: no expired-order scan  *)
(* returns it and no cleanup batch holds it.                               *)
(***************************************************************************)
C4_SentinelNeverExpired ==
    \A k \in 1..Len(scan.values) :
        scan.values[k].expire_timestamp = <<U64Max>> =>
            /\ k \notin IdsOf(scan.jOrders)
            /\ k \notin VectorTxIds(scan.jTx)
            /\ scan.onlyExpired => k \notin IdsOf(scan.filteredOrders)
            /\ k \notin ScalarTxIds(scan.lTxs)

\* Witness: a slice with a sentinel order and an expired order has been
\* scanned and batched by both programs.
C4_Witness ==
    /\ Len(scan.values) = 2
    /\ scan.values[1].expire_timestamp = <<U64Max>>
    /\ scan.jPc = "built" /\ scan.lPc = "built"
    /\ VectorTxIds(scan.jTx) = {2}
    /\ ScalarTxIds(scan.lTxs) = {2}

(***************************************************************************)
(* Pagination: getPoolTicks of the library service draining the children   *)
(* of a pool through SuiClient.getDynamicFields.                           *)
(***************************************************************************)
MaxColl == 25

MaxPage == 10

DYNAMIC_FIELDS_LIMIT == 50

\* The gateway: the children of a parent in stable enumeration order, served
\* after the given cursor (None: from the beginning), at most `limit` and at
\* most the server's page size per page.  A cursor is the reference of the
\* last child served.
GetDynamicFields(collection, cursor, limit, pageSize) ==
    LET start == IF cursor = <<>> THEN 0
                 ELSE CHOOSE q \in 1..Len(collection) : collection[q] = cursor[1]
        size == Min(Min(limit, pageSize), Len(collection) - start)
        data == [j \in 1..size |-> collection[start + j]]
    IN  [data |-> data,
         hasNextPage |-> start + size < Len(collection),
         nextCursor |-> IF size = 0 THEN cursor ELSE Some(data[size])]

\* cursor = result.nextCursor
NextCursorStale(cursor, result) == cursor

NextCursor(cursor, result) == result.nextCursor

\* Child references are distinct; reference k + MaxColl is the k-th child.
Collections == {[k \in 1..n |-> k + MaxColl] : n \in 0..MaxColl}

\* getPoolTicks at its entry, for a pool with the given children.
PagerStart(collection, pageSize) ==
    [pc |-> "loop", collection |-> collection, pageSize |-> pageSize,
     ticks |-> <<>>, hasNextPage |-> TRUE, cursor |-> None,
     requests |-> 0, requestCursor |-> None, previousNextCursor |-> None,
     returnedCursor |-> None, lastPageSeen |-> FALSE,
     requestsAfterLastPage |-> 0, failed |-> FALSE, returned |-> <<>>]

InitPager ==
    /\ \E collection \in Collections, pageSize \in 1..MaxPage :
           pager = PagerStart(collection, pageSize)
    /\ builder = Idle /\ scan = Idle /\ rebate = Idle /\ bot = Idle
    /\ runner = Idle /\ ui = Idle

\* One iteration of `while (hasNextPage)`: the request, its page, the push and
\* the two assignments.  requestCursor is the cursor this request carries,
\* previousNextCursor the nextCursor of the page before it (None before the
\* first page) and returnedCursor the nextCursor of this page.
TicksFetchPage ==
    /\ pager.pc = "loop"
    /\ pager.hasNextPage
    /\ LET result == GetDynamicFields(pager.collection, pager.cursor,
                                      DYNAMIC_FIELDS_LIMIT, pager.pageSize)
       IN  pager' = [pager EXCEPT
                       !.requests = pager.requests + 1,
                       !.requestCursor = pager.cursor,
                       !.previousNextCursor = pager.returnedCursor,
                       !.returnedCursor = result.nextCursor,
                       !.requestsAfterLastPage =
                           IF pager.lastPageSeen
                           THEN pager.requestsAfterLastPage + 1
                           ELSE pager.requestsAfterLastPage,
                       !.lastPageSeen =
                           pager.lastPageSeen \/ ~result.hasNextPage,
                       !.ticks = pager.ticks \o result.data,
                       !.hasNextPage = result.hasNextPage,
                       !.cursor = NextCursor(pager.cursor, result)]
    /\ UNCHANGED <<builder, scan, rebate, bot, runner, ui>>

\* The request throws: the catch returns the ticks collected so far.
TicksFetchThrows ==
    /\ pager.pc = "loop"
    /\ pager.hasNextPage
    /\ pager' = [pager EXCEPT !.pc = "done",
                              !.requests = pager.requests + 1,
                              !.requestCursor = pager.cursor,
                              !.failed = TRUE,
                              !.returned = pager.ticks]
    /\ UNCHANGED <<builder, scan, rebate, bot, runner, ui>>

\* Loop exit: `return ticks`.
TicksReturn ==
    /\ pager.pc = "loop"
    /\ ~pager.hasNextPage
    /\ pager' = [pager EXCEPT !.pc = "done", !.returned = pager.ticks]
    /\ UNCHANGED <<builder, scan, rebate, bot, runner, ui>>

PagerNext == TicksFetchPage \/ TicksFetchThrows \/ TicksReturn

SpecPager == InitPager /\ [][PagerNext]_vars

(***************************************************************************)
(* C7.  Draining a finite collection served in pages returns every child   *)
(* reference exactly once, in enumeration order; every request after the   *)
(* first carries the cursor returned by the previous page; no request is   *)
(* issued after the first page whose hasNextPage is false.                 *)
(***************************************************************************)
C7_DrainReturnsEveryChildOnce ==
    ~pager.failed =>
        /\ Len(pager.ticks) <= Len(pager.collection)
        /\ \A k \in 1..Len(pager.ticks) : pager.ticks[k] = pager.collection[k]
        /\ pager.requests >= 1 =>
               pager.requestCursor = pager.previousNextCursor
        /\ pager.requestsAfterLastPage = 0
        /\ pager.pc = "done" =>
               /\ pager.returned = pager.collection
               /\ pager.lastPageSeen

\* Witness: pages of sizes 10, 10, 5 give 25 references after 3 requests.
C7_Witness ==
    /\ pager.pc = "done" /\ ~pager.failed
    /\ pager.pageSize = 10
    /\ Len(pager.collection) = 25
    /\ pager.requests = 3
    /\ Len(pager.returned) = 25
    /\ Cardinality({pager.returned[k] : k \in 1..25}) = 25

(***************************************************************************)
(* The janitor bot: main, processPool and the topology walk of             *)
(* scanPoolForExpiredOrders (src/deepbook-janitor).                        *)
(***************************************************************************)
MaxPools == 2

MaxFound == 2

\* 0.00297 SUI and 0.005 SUI, in units of 0.00001 SUI.
ESTIMATED_REBATE_PER_ORDER == 297

ESTIMATED_GAS_COST == 500

\* What the gateway holds for one pool when it is scanned.
\*   root:     the pool object (moveObject; no content; another object kind;
\*             a moveObject with neither inner.fields.id.id nor id.id)
\*   v1Field:  the dynamic field keyed u64 1 (present; absent; the listing fails)
\*   v1Object: the version-1 object (moveObject with value.fields.book and both
\*             sides; no content; another kind; no value.fields; no book; a
\*             book without bids/asks)
\*   bids, asks: the expired orders each side holds; sideFails: a scanSide
\*             task rejects
RootKinds == {"moveObject", "noContent", "package", "noIdFields"}

V1FieldKinds == {"present", "absent", "fetchFails"}

V1ObjectKinds ==
    {"moveObject", "noContent", "package", "noValueFields", "noBook", "noSides"}

PoolShape(root, v1Field, v1Object, bids, asks, sideFails) ==
    [root |-> root, v1Field |-> v1Field, v1Object |-> v1Object,
     bids |-> bids, asks |-> asks, sideFails |-> sideFails]

PoolShapes ==
    {PoolShape(r, "present", "moveObject", 0, 0, FALSE) :
        r \in RootKinds \ {"moveObject"}}
    \cup {PoolShape("moveObject", f, "moveObject", 0, 0, FALSE) :
        f \in V1FieldKinds \ {"present"}}
    \cup {PoolShape("moveObject", "present", o, 0, 0, FALSE) :
        o \in V1ObjectKinds \ {"moveObject"}}
    \cup {PoolShape("moveObject", "present", "moveObject", b, a, f) :
        b \in 0..MaxFound, a \in 0..MaxFound, f \in BOOLEAN}

\* The orders scanSide returns for a side: n expired orders, ids from `first`.
SideOrders(side, first, n) ==
    [k \in 1..n |-> [orderId |-> first + k - 1, side |-> side, isExpired |-> TRUE]]

\* `if (!v1Field)`: no dynamic field of the versioned object is keyed u64 1.
V1FieldMissingIgnored(shape) == FALSE

V1FieldMissing(shape) == shape.v1Field = "absent"

\* The gateway requests of a scan, in the order they are issued.
PoolRequest == <<"getObject:pool">>

VersionedRequest == PoolRequest \o <<"getDynamicFields:versioned">>

V1Request == VersionedRequest \o <<"getObject:v1">>

SideRequests(shape) ==
    V1Request \o <<"getDynamicFields:bids", "getDynamicFields:asks">>
    \o (IF shape.bids > 0 THEN <<"multiGetObjects:bids">> ELSE <<>>)
    \o (IF shape.asks > 0 THEN <<"multiGetObjects:asks">> ELSE <<>>)

ScanOutcome(threw, orders, requests) ==
    [threw |-> threw, orders |-> orders, requests |-> requests]

\* The body of scanPoolForExpiredOrders' try block: "threw" when a statement
\* of the walk throws, else the list it returns; with the requests made.
ScanPoolTry(shape) ==
    IF shape.root \in {"noContent", "package"}
    THEN ScanOutcome(TRUE, <<>>, PoolRequest)       \* 'Invalid Pool Object'
    ELSE IF shape.root = "noIdFields"
    THEN ScanOutcome(TRUE, <<>>, VersionedRequest)  \* parentId undefined
    ELSE IF shape.v1Field = "fetchFails"
    THEN ScanOutcome(TRUE, <<>>, VersionedRequest)
    ELSE IF V1FieldMissing(shape)
    THEN ScanOutcome(FALSE, <<>>, VersionedRequest) \* return []
    ELSE IF shape.v1Field = "absent"
    THEN ScanOutcome(TRUE, <<>>, VersionedRequest)  \* v1Field.objectId of undefined
    ELSE IF shape.v1Object \in {"noContent", "package"}
    THEN ScanOutcome(TRUE, <<>>, V1Request)         \* 'Invalid V1 Object'
    ELSE IF shape.v1Object \in {"noValueFields", "noSides"}
    THEN ScanOutcome(TRUE, <<>>, V1Request)         \* TypeError, missing field
    ELSE IF shape.v1Object = "noBook"
    THEN ScanOutcome(TRUE, <<>>, V1Request)         \* 'No Order Book found'
    ELSE IF shape.sideFails
    THEN ScanOutcome(TRUE, <<>>, SideRequests(shape)) \* Promise.all rejects
    ELSE ScanOutcome(FALSE,
                     SideOrders("bid", 1, shape.bids)
                     \o SideOrders("ask", shape.bids + 1, shape.asks),
                     SideRequests(shape))

\* scanPoolForExpiredOrders: the catch-all logs and returns [], so the call
\* never raises.
ScanPoolForExpiredOrdersUncaught(shape) ==
    LET r == ScanPoolTry(shape)
    IN  [raised |-> r.threw, caught |-> FALSE, orders |-> r.orders,
         requests |-> r.requests]

ScanPoolForExpiredOrders(shape) ==
    LET r == ScanPoolTry(shape)
    IN  [raised |-> FALSE, caught |-> r.threw,
         orders |-> IF r.threw THEN <<>> ELSE r.orders,
         requests |-> r.requests]

\* const potentialRebate = expiredOrders.length * ESTIMATED_REBATE_PER_ORDER
PotentialRebatePerOrder(n) == ESTIMATED_REBATE_PER_ORDER

PotentialRebate(n) == n * ESTIMATED_REBATE_PER_ORDER

\* The comparison read the other way round.
NotProfitableReversed(n) == PotentialRebate(n) > ESTIMATED_GAS_COST

\* if (potentialRebate < ESTIMATED_GAS_COST) skip
NotProfitable(n) == PotentialRebate(n) < ESTIMATED_GAS_COST

\* `await`: the caller is suspended at the call until the promise settles; it
\* does not go on to its next statement.
AwaitDropped(suspended, continuing) == continuing

Await(suspended, continuing) == suspended

\* processPool, step 4: what is logged for the settled submission.
ProcessPoolReport(result) ==
    CASE result = "success" -> "cleanupSuccessful"
      [] result = "failureStatus" -> "transactionFailed"
      [] OTHER -> "errorExecuting"

\* The record main keeps of one pool of TARGET_POOLS once processPool is in it.
NoPoolLog ==
    [shape |-> PoolShape("moveObject", "present", "moveObject", 0, 0, FALSE),
     scans |-> 0, requests |-> <<>>, caught |-> FALSE, found |-> 0,
     submissions |-> 0, result |-> "none",
     outcome |-> "none"]

InitBot ==
    /\ \E n \in 1..MaxPools, keyOk \in BOOLEAN :
           bot = [pc |-> "start", keyOk |-> keyOk, nPools |-> n, idx |-> 0,
                  expiredOrders |-> <<>>, inFlight |-> <<>>,
                  log |-> [p \in 1..n |-> NoPoolLog], scanOrder |-> <<>>]
    /\ builder = Idle /\ scan = Idle /\ rebate = Idle /\ pager = Idle
    /\ runner = Idle /\ ui = Idle

\* main: getKeypair() throws on a missing or malformed SUI_PRIVATE_KEY, before
\* any pool is looked at; otherwise the loop over TARGET_POOLS starts.
BotStart ==
    /\ bot.pc = "start"
    /\ bot' = [bot EXCEPT !.pc = IF bot.keyOk THEN "nextPool" ELSE "aborted",
                          !.idx = 1]
    /\ UNCHANGED <<builder, scan, rebate, pager, runner, ui>>

\* processPool, step 1: await service.scanPoolForExpiredOrders(poolConfig).
\* An exception out of the scan would leave processPool and main.
BotScanPool ==
    /\ bot.pc = "nextPool"
    /\ bot.idx <= bot.nPools
    /\ \E shape \in PoolShapes :
           LET r == ScanPoolForExpiredOrders(shape)
           IN  bot' = [bot EXCEPT
                         !.pc = IF r.raised THEN "aborted" ELSE "scanned",
                         !.expiredOrders = r.orders,
                         !.scanOrder = Append(bot.scanOrder, bot.idx),
                         !.log[bot.idx].shape = shape,
                         !.log[bot.idx].scans = bot.log[bot.idx].scans + 1,
                         !.log[bot.idx].requests = r.requests,
                         !.log[bot.idx].caught = r.caught,
                         !.log[bot.idx].found = Len(r.orders)]
    /\ UNCHANGED <<builder, scan, rebate, pager, runner, ui>>

\* processPool: `if (expiredOrders.length === 0) return`.
BotSkipNoOrders ==
    /\ bot.pc = "scanned"
    /\ Len(bot.expiredOrders) = 0
    /\ bot' = [bot EXCEPT !.pc = "nextPool", !.idx = bot.idx + 1,
                          !.log[bot.idx].outcome = "noOrders"]
    /\ UNCHANGED <<builder, scan, rebate, pager, runner, ui>>

\* processPool, step 2: the profitability check skips the pool.
BotSkipNotProfitable ==
    /\ bot.pc = "scanned"
    /\ Len(bot.expiredOrders) # 0
    /\ NotProfitable(Len(bot.expiredOrders))
    /\ bot' = [bot EXCEPT !.pc = "nextPool", !.idx = bot.idx + 1,
                          !.log[bot.idx].outcome = "notProfitable"]
    /\ UNCHANGED <<builder, scan, rebate, pager, runner, ui>>

\* processPool, step 3: build the transaction and call
\* client.signAndExecuteTransaction.
BotSubmit ==
    /\ bot.pc = "scanned"
    /\ Len(bot.expiredOrders) # 0
    /\ ~NotProfitable(Len(bot.expiredOrders))
    /\ bot' = [bot EXCEPT
                 !.pc = Await("awaitingResult", "nextPool"),
                 !.idx = Await(bot.idx, bot.idx + 1),
                 !.inFlight = Append(bot.inFlight,
                                [pool |-> bot.idx,
                                 tx |-> JanitorBuildCleanupTransaction(
                                            bot.expiredOrders)]),
                 !.log[bot.idx].submissions = bot.log[bot.idx].submissions + 1]
    /\ UNCHANGED <<builder, scan, rebate, pager, runner, ui>>

\* processPool, step 4: the submission resolves with a success status, resolves
\* with a failure status (logged, return), or throws (caught and logged).
BotSubmitResolves ==
    /\ bot.pc = "awaitingResult"
    /\ bot.inFlight # <<>>
    /\ \E result \in {"success", "failureStatus", "rejects"} :
           bot' = [bot EXCEPT
                     !.pc = "nextPool", !.idx = bot.idx + 1,
                     !.inFlight = Tail(bot.inFlight),
                     !.log[bot.idx].result = result,
                     !.log[bot.idx].outcome = ProcessPoolReport(result)]
    /\ UNCHANGED <<builder, scan, rebate, pager, runner, ui>>

\* main: the loop over TARGET_POOLS is exhausted.
BotMainReturns ==
    /\ bot.pc = "nextPool"
    /\ bot.idx > bot.nPools
    /\ bot' = [bot EXCEPT !.pc = "finished"]
    /\ UNCHANGED <<builder, scan, rebate, pager, runner, ui>>

BotNext ==
    \/ BotStart \/ BotScanPool \/ BotSkipNoOrders \/ BotSkipNotProfitable
    \/ BotSubmit \/ BotSubmitResolves \/ BotMainReturns

SpecBot == InitBot /\ [][BotNext]_vars

\* A pool whose root object or version-1 object is malformed: another object
\* kind, no content, or a nested field missing.
MalformedPool(shape) ==
    \/ shape.root # "moveObject"
    \/ shape.v1Field = "present" /\ shape.v1Object # "moveObject"

\* C8: in one pass over a pool, a cleanup batch is submitted if and only if the
\* pool's expired-order count n satisfies n * 0.00297 >= 0.005; when that is
\* false (or nothing was found) the pool is skipped with no submission, and the
\* skip is a plain return: the run goes on, nothing is raised.
C8_SubmitIffWorthSubmitting ==
    \A p \in 1..bot.nPools :
        LET entry == bot.log[p]
            worth == entry.found * ESTIMATED_REBATE_PER_ORDER >= ESTIMATED_GAS_COST
        IN  /\ entry.submissions \in {0, 1}
            /\ entry.submissions = 1 => worth
            /\ entry.outcome # "none" => (entry.submissions = 1 <=> worth)
            /\ (entry.outcome # "none" /\ ~worth) =>
                   /\ entry.outcome \in {"noOrders", "notProfitable"}
                   /\ bot.pc # "aborted"
            /\ (bot.pc = "awaitingResult" /\ bot.idx = p) =>
                   /\ Len(bot.inFlight) = 1
                   /\ bot.inFlight[1].pool = p
                   /\ VectorTxIds(<<bot.inFlight[1].tx>>)
                          \subseteq IdsOf(bot.expiredOrders)

\* One pool holds a single expired order and is skipped as not profitable; the
\* next holds two and its batch was submitted.
C8_Witness ==
    /\ bot.pc = "finished"
    /\ bot.nPools = 2
    /\ bot.log[1].found = 1
    /\ bot.log[1].outcome = "notProfitable"
    /\ bot.log[1].submissions = 0
    /\ bot.log[2].found = 2
    /\ bot.log[2].submissions = 1
    /\ bot.log[2].outcome = "cleanupSuccessful"

\* C9: a pool whose root object or version-1 object is malformed yields an
\* empty scan and no submission, and the pools are processed one after the
\* other in registry order until the registry is exhausted: once the pass has
\* started, no pool's scan aborts it.
C9_MalformedPoolIsSkippedRunContinues ==
    /\ \A p \in 1..bot.nPools :
           /\ bot.log[p].scans <= 1
           /\ (bot.log[p].scans = 1 /\ MalformedPool(bot.log[p].shape)) =>
                  /\ bot.log[p].found = 0
                  /\ bot.log[p].submissions = 0
                  /\ bot.log[p].outcome \in {"none", "noOrders"}
                  /\ bot.idx = p => bot.expiredOrders = <<>>
    /\ \A k \in 1..Len(bot.scanOrder) : bot.scanOrder[k] = k
    /\ bot.pc = "finished" => Len(bot.scanOrder) = bot.nPools
    /\ bot.pc = "aborted" => (~bot.keyOk /\ bot.scanOrder = <<>>)
    /\ bot.pc \notin {"finished", "aborted"} => ENABLED BotNext

\* The first pool's root is not a Move object; the second pool was still
\* scanned, and its two orders submitted, before the run finished.
C9_Witness ==
    /\ bot.pc = "finished"
    /\ bot.nPools = 2
    /\ bot.log[1].shape.root = "package"
    /\ bot.log[1].outcome = "noOrders"
    /\ bot.log[2].shape.v1Object = "moveObject"
    /\ bot.log[2].found = 2
    /\ bot.log[2].submissions = 1

(***************************************************************************)
(* Submitting a list of built transactions one after the other: the loops  *)
(* of main and executeWithKeypair (src/examples/usage.ts) and of the       *)
(* public janitor example's main.                                          *)
(***************************************************************************)
MaxTx == 3

RunnerFns == {"usage.main", "usage.executeWithKeypair", "publicJanitor.main"}

\* Whether the loop body wraps signAndExecuteTransaction in try/catch.
CatchesPerTransaction(fn) == fn # "usage.executeWithKeypair"

\* signAndExecuteTransaction resolves (the effects carrying a success or a
\* failure status, which none of the loops inspects) or rejects.
SubmissionOutcomes == {"success", "failureStatus", "rejects"}

\* What the loop body logs for a submission that resolved: the digest with
\* "transaction succeeded"; the effects' status is not read.
RunnerReportResolved(outcome) == "success"

\* What happens to a rejection: the per-transaction catch logs the failure
\* with the error; without a catch the exception goes to the caller.
RunnerReportRejected(fn) ==
    IF CatchesPerTransaction(fn) THEN "failed" ELSE "thrown"

InitRunner ==
    /\ \E fn \in RunnerFns, n \in 1..MaxTx :
           runner = [pc |-> "loop", fn |-> fn, nTx |-> n, i |-> 1,
                     attempts |-> [k \in 1..n |-> 0],
                     outcomes |-> [k \in 1..n |-> "none"],
                     logged |-> [k \in 1..n |-> "none"],
                     inFlight |-> <<>>,
                     successCount |-> 0]
    /\ builder = Idle /\ scan = Idle /\ rebate = Idle /\ pager = Idle
    /\ bot = Idle /\ ui = Idle

\* The loop takes transactions[i] and calls signAndExecuteTransaction.
RunnerSubmit ==
    /\ runner.pc = "loop"
    /\ runner.i <= runner.nTx
    /\ runner' = [runner EXCEPT
                    !.pc = Await("awaiting", "loop"),
                    !.i = Await(runner.i, runner.i + 1),
                    !.inFlight = Append(runner.inFlight, runner.i),
                    !.attempts[runner.i] = runner.attempts[runner.i] + 1]
    /\ UNCHANGED <<builder, scan, rebate, pager, bot, ui>>

\* The awaited call resolves: the digest is logged, the loop moves on.
RunnerResolves ==
    /\ runner.pc = "awaiting"
    /\ runner.inFlight # <<>>
    /\ \E outcome \in SubmissionOutcomes \ {"rejects"} :
           runner' = [runner EXCEPT
                        !.pc = "loop", !.i = runner.i + 1,
                        !.inFlight = Tail(runner.inFlight),
                        !.outcomes[runner.i] = outcome,
                        !.logged[runner.i] = RunnerReportResolved(outcome),
                        !.successCount = runner.successCount + 1]
    /\ UNCHANGED <<builder, scan, rebate, pager, bot, ui>>

\* The awaited call rejects: main's catch logs it and the loop moves on;
\* executeWithKeypair has no handler, so the exception leaves the loop and the
\* function.
RunnerRejects ==
    /\ runner.pc = "awaiting"
    /\ runner.inFlight # <<>>
    /\ runner' = [runner EXCEPT
                    !.inFlight = Tail(runner.inFlight),
                    !.logged[runner.i] = RunnerReportRejected(runner.fn),
                    !.pc = IF CatchesPerTransaction(runner.fn)
                           THEN "loop" ELSE "rejected",
                    !.i = IF CatchesPerTransaction(runner.fn)
                          THEN runner.i + 1 ELSE runner.i,
                    !.outcomes[runner.i] = "rejects"]
    /\ UNCHANGED <<builder, scan, rebate, pager, bot, ui>>

\* The loop is exhausted.
RunnerReturn ==
    /\ runner.pc = "loop"
    /\ runner.i > runner.nTx
    /\ runner' = [runner EXCEPT !.pc = "done"]
    /\ UNCHANGED <<builder, scan, rebate, pager, bot, ui>>

RunnerNext ==
    \/ RunnerSubmit \/ RunnerResolves \/ RunnerRejects \/ RunnerReturn

SpecRunner == InitRunner /\ [][RunnerNext]_vars

InitSubmitters == InitBot \/ InitRunner

SubmittersNext == BotNext \/ RunnerNext

SpecSubmitters == InitSubmitters /\ [][SubmittersNext]_vars

\* C11: a submitted batch that throws on submission or executes with a
\* non-success status is reported as a failure and is never counted or logged
\* as a successful batch -- in the bot's processPool and in the main loops of
\* the two example programs.
C11_FailedBatchReportedAsFailure ==
    /\ bot.pc # "idle" =>
           \A p \in 1..bot.nPools :
               /\ bot.log[p].result \in {"failureStatus", "rejects"} =>
                      bot.log[p].outcome \in {"transactionFailed", "errorExecuting"}
               /\ bot.log[p].outcome = "cleanupSuccessful" =>
                      bot.log[p].result = "success"
    /\ (runner.pc # "idle" /\ CatchesPerTransaction(runner.fn)) =>
           /\ \A k \in 1..runner.nTx :
                  /\ runner.outcomes[k] \in {"failureStatus", "rejects"} =>
                         runner.logged[k] = "failed"
                  /\ runner.logged[k] = "success" =>
                         runner.outcomes[k] = "success"
           /\ runner.successCount =
                  Cardinality({k \in 1..runner.nTx : runner.outcomes[k] = "success"})

\* main of usage.ts: the only transaction executed with a failure status, and
\* the run ended having logged it as succeeded and counted one success.
C11_Witness ==
    /\ runner.pc = "done"
    /\ runner.fn = "usage.main"
    /\ runner.nTx = 1
    /\ runner.outcomes[1] = "failureStatus"
    /\ runner.logged[1] = "success"
    /\ runner.successCount = 1

\* C12: at every instant at most one cleanup submission is in flight; the
\* next submission of a run -- and, in the bot, the next pool's scan --
\* starts only after the previous submission has resolved or failed.
C12_AtMostOneSubmissionInFlight ==
    /\ bot.pc # "idle" =>
           /\ Len(bot.inFlight) <= 1
           /\ bot.pc # "awaitingResult" => bot.inFlight = <<>>
           /\ bot.inFlight # <<>> =>
                  /\ bot.inFlight[1].pool = bot.idx
                  /\ Len(bot.scanOrder) = bot.idx
    /\ runner.pc # "idle" =>
           /\ Len(runner.inFlight) <= 1
           /\ runner.pc # "awaiting" => runner.inFlight = <<>>
           /\ runner.inFlight # <<>> => runner.inFlight[1] = runner.i

\* The bot has settled the first pool's submission and is waiting on the
\* second pool's, the only one in flight.
C12_Witness ==
    /\ bot.pc = "awaitingResult"
    /\ bot.idx = 2
    /\ bot.log[1].submissions = 1
    /\ bot.log[1].result # "none"
    /\ Len(bot.inFlight) = 1

(***************************************************************************)
(* The vector-form builder as the bot uses it: processPool hands the whole *)
(* list of expired orders of a pool to buildCleanupTransaction, once.      *)
(***************************************************************************)
MaxExpired == 130

\* The expired orders of the pool, with order ids 1..n.
ExpiredOrders(n) ==
    [k \in 1..n |-> [orderId |-> k, side |-> "bid", isExpired |-> TRUE]]

InitVector ==
    /\ \E n \in 1..MaxExpired :
           builder = [pc |-> "vectorCall", orders |-> ExpiredOrders(n),
                      transactions |-> <<>>]
    /\ scan = Idle /\ rebate = Idle /\ pager = Idle /\ bot = Idle
    /\ runner = Idle /\ ui = Idle

\* processPool line 57: const tx = service.buildCleanupTransaction(poolConfig,
\* expiredOrders); that one transaction is all that is submitted for the pool.
VectorBuild ==
    /\ builder.pc = "vectorCall"
    /\ builder' = [builder EXCEPT
                     !.pc = "vectorBuilt",
                     !.transactions =
                         <<JanitorBuildCleanupTransaction(builder.orders)>>]
    /\ UNCHANGED <<scan, rebate, pager, bot, runner, ui>>

VectorNext == VectorBuild

SpecVector == InitVector /\ [][VectorNext]_vars

\* The sizes of the vector arguments, transaction by transaction.
VectorBatchSizes(txs) ==
    [t \in 1..Len(txs) |-> Len(txs[t].commands[1].orderIds)]

\* C13: with requestedMax = 50 the vector-form builder covers all N expired
\* orders in ceil(N/50) batches, each one clean_up_expired_orders call taking
\* the whole group as a single vector argument; N = 130 gives [50, 50, 30].
C13_VectorBuilderCoversAllOrders ==
    builder.pc = "vectorBuilt" =>
        LET txs == builder.transactions
            n == Len(builder.orders)
        IN  /\ Len(txs) = (n + MAX_PER_TX - 1) \div MAX_PER_TX
            /\ \A t \in 1..Len(txs) :
                   /\ Len(txs[t].commands) = 1
                   /\ txs[t].commands[1].target
                          = "deepbook::clean_up_expired_orders"
            /\ VectorTxIds(txs) = IdsOf(builder.orders)
            /\ n = 130 => VectorBatchSizes(txs) = <<50, 50, 30>>

\* 130 expired orders: one transaction, carrying the first 50 ids only.
C13_Witness ==
    /\ builder.pc = "vectorBuilt"
    /\ Len(builder.orders) = 130
    /\ VectorBatchSizes(builder.transactions) = <<50>>
    /\ VectorTxIds(builder.transactions) = 1..50

\* C14: in scalar form every transaction holds exactly one move call per order
\* of its batch -- the call of the builder's entry point on that order -- so
\* for any requestedMax >= 1 the number of operations of a transaction never
\* exceeds MAX_COMMANDS_PER_PTB (1024).
C14_ScalarOperationsWithinCeiling ==
    builder.pc \in {"loop", "done"} =>
        LET txs == builder.transactions
            n == Len(builder.orders)
            requestedMax == builder.maxOrdersPerTransaction
            size == IF requestedMax < MAX_COMMANDS_PER_PTB
                    THEN requestedMax ELSE MAX_COMMANDS_PER_PTB
        IN  \A t \in 1..Len(txs) :
                LET first == (t - 1) * size
                    last == IF t * size < n THEN t * size ELSE n
                IN  /\ Len(txs[t].commands) = last - first
                    /\ Len(txs[t].commands) <= MAX_COMMANDS_PER_PTB
                    /\ \A c \in 1..Len(txs[t].commands) :
                           /\ txs[t].commands[c].orderId = builder.orders[first + c]
                           /\ txs[t].commands[c].target \in
                                  {"pool::cancel_order",
                                   "pool::clean_up_expired_order"}

\* 2049 orders with a request above the ceiling: three transactions of 1024,
\* 1024 and 1 move calls.
C14_Witness ==
    /\ builder.pc = "done"
    /\ Len(builder.orders) = 2 * MAX_COMMANDS_PER_PTB + 1
    /\ builder.maxOrdersPerTransaction > MAX_COMMANDS_PER_PTB
    /\ Len(builder.transactions) = 3
    /\ Len(builder.transactions[1].commands) = MAX_COMMANDS_PER_PTB
    /\ Len(builder.transactions[2].commands) = MAX_COMMANDS_PER_PTB
    /\ Len(builder.transactions[3].commands) = 1

\* C15: when the versioned object has no child keyed by the u64 version marker
\* 1, the scan yields an empty result without raising (and without taking the
\* error path), and no further object of that pool is fetched: the listing of
\* the versioned object's fields is the last request.
C15_MissingVersionYieldsEmptyResult ==
    \A p \in 1..bot.nPools :
        (bot.log[p].scans = 1 /\ bot.log[p].shape.root = "moveObject"
            /\ bot.log[p].shape.v1Field = "absent") =>
            /\ bot.log[p].found = 0
            /\ ~bot.log[p].caught
            /\ bot.log[p].requests
                   = <<"getObject:pool", "getDynamicFields:versioned">>
            /\ bot.log[p].submissions = 0
            /\ bot.pc # "aborted"

\* The second pool has no version-1 child; its scan ended after two requests
\* and the pass finished.
C15_Witness ==
    /\ bot.pc = "finished"
    /\ bot.nPools = 2
    /\ bot.log[2].shape.v1Field = "absent"
    /\ bot.log[2].outcome = "noOrders"
    /\ Len(bot.log[2].requests) = 2

\* C16, as stated: with orderCount = 2, a per-order estimate of 0.00297 and a
\* fixed cost estimate of 0.005 the profitability gate returns false, and the
\* pool is skipped as not worth submitting.
C16_TwoOrdersAreSkipped ==
    \A p \in 1..bot.nPools :
        (bot.log[p].found = 2 /\ bot.log[p].outcome # "none") =>
            /\ bot.log[p].outcome = "notProfitable"
            /\ bot.log[p].submissions = 0

\* C16, amended: with orderCount = 2 the estimate is 2 * 0.00297 = 0.00594,
\* which is not below 0.005: the gate returns true and the pool's batch is
\* submitted.  The gate is false for a single order (0.00297 < 0.005).
C16_TwoOrdersAreSubmitted ==
    \A p \in 1..bot.nPools :
        /\ (bot.log[p].found = 2 /\ bot.log[p].outcome # "none") =>
               /\ bot.log[p].submissions = 1
               /\ bot.log[p].outcome \in
                      {"cleanupSuccessful", "transactionFailed", "errorExecuting"}
        /\ (bot.log[p].found = 2 /\ bot.log[p].outcome = "none"
               /\ bot.idx = p) =>
               bot.pc \in {"scanned", "awaitingResult"}
        /\ (bot.log[p].found = 1 /\ bot.log[p].outcome # "none") =>
               /\ bot.log[p].submissions = 0
               /\ bot.log[p].outcome = "notProfitable"

\* A single pool with one expired bid and one expired ask: its batch was
\* submitted and succeeded.
C16_Witness ==
    /\ bot.pc = "finished"
    /\ bot.nPools = 1
    /\ bot.log[1].shape.bids = 1
    /\ bot.log[1].shape.asks = 1
    /\ bot.log[1].found = 2
    /\ bot.log[1].submissions = 1
    /\ bot.log[1].outcome = "cleanupSuccessful"

(***************************************************************************)
(* fetchUserOpenOrders / fetchOrdersFromBalanceManager: the user's open    *)
(* orders, read page by page from the BalanceManager's dynamic fields.     *)
(***************************************************************************)
MaxChildren == 55

MaxSmallLimit == 3

DEFAULT_FETCH_LIMIT == 100

ORDERS_PAGE_LIMIT == 50

\* What a child of the BalanceManager turns out to be once fetched and parsed:
\* an open order, an order in another status, or nothing parseable (null).
ChildPatterns == {"allOpen", "noneOpen", "alternate", "thirds", "fills"}

\* The content the gateway holds for a child: nothing readable, or the fields
\* quantity and filled_quantity, each of which may be missing.
OrderFields(quantity, filled_quantity) ==
    Some([quantity |-> quantity, filled_quantity |-> filled_quantity])

ChildObject(pattern, ref) ==
    CASE pattern = "allOpen" -> OrderFields(Some(2), Some(0))
      [] pattern = "noneOpen" -> OrderFields(Some(2), Some(1 + (ref % 2)))
      [] pattern = "alternate" ->
             OrderFields(Some(2), IF ref % 2 = 1 THEN Some(0) ELSE Some(2))
      [] pattern = "thirds" ->
             IF ref % 3 = 1 THEN OrderFields(Some(2), None)
             ELSE IF ref % 3 = 2 THEN OrderFields(Some(2), Some(1))
             ELSE None
      [] OTHER ->
             CASE ref % 5 = 1 -> OrderFields(Some(2), Some(0))
               [] ref % 5 = 2 -> OrderFields(Some(2), Some(1))
               [] ref % 5 = 3 -> OrderFields(Some(2), Some(2))
               [] ref % 5 = 4 -> OrderFields(None, None)
               [] OTHER -> OrderFields(Some(1), Some(3))

\* BigInt(x || 0)
BigIntOrZero(x) == IF IsSome(x) THEN x[1] ELSE 0

\* A status rule that takes every order not yet filled for an open one.
ParseOrderStatusUnfilledIsOpen(fields) ==
    IF BigIntOrZero(fields.filled_quantity) < BigIntOrZero(fields.quantity)
       \/ BigIntOrZero(fields.filled_quantity) = 0
    THEN "OPEN" ELSE "FILLED"

\* parseOrderStatus
ParseOrderStatus(fields) ==
    LET quantity == BigIntOrZero(fields.quantity)
        filledQuantity == BigIntOrZero(fields.filled_quantity)
    IN  IF filledQuantity = 0 THEN "OPEN"
        ELSE IF filledQuantity < quantity THEN "PARTIALLY_FILLED"
        ELSE "FILLED"

\* parseDynamicFieldToOrder: null without readable content, else the order.
ParseDynamicFieldToOrder(pattern, ref) ==
    LET obj == ChildObject(pattern, ref)
    IN  IF obj = None THEN None
        ELSE Some([orderId |-> ref,
                   quantity |-> BigIntOrZero(obj[1].quantity),
                   filledQuantity |-> BigIntOrZero(obj[1].filled_quantity),
                   status |-> ParseOrderStatus(obj[1])])

ChildKind(pattern, ref) ==
    LET order == ParseDynamicFieldToOrder(pattern, ref)
    IN  IF order = None THEN "unparsable"
        ELSE IF order[1].status = "OPEN" THEN "open" ELSE "filled"

\* limit: Math.min(50, limit - orders.length)
OrdersPageLimitFixed(limit, have) == ORDERS_PAGE_LIMIT

OrdersPageLimit(limit, have) == Min(ORDERS_PAGE_LIMIT, limit - have)

\* The for loop over dynamicFields.data: an order is pushed when it parsed and
\* its status is OPEN.
RECURSIVE PushOpenOrders(_, _, _)
PushOpenOrders(orders, data, pattern) ==
    IF data = <<>> THEN orders
    ELSE PushOpenOrders(
             IF ChildKind(pattern, Head(data)) = "open"
             THEN Append(orders, Head(data)) ELSE orders,
             Tail(data), pattern)

ChildCounts ==
    (0..(MaxSmallLimit + 2)) \cup ((ORDERS_PAGE_LIMIT - 2)..MaxChildren)

FetchLimits ==
    (0..MaxSmallLimit)
    \cup ((ORDERS_PAGE_LIMIT - 1)..(ORDERS_PAGE_LIMIT + 2))
    \cup {DEFAULT_FETCH_LIMIT}

ServerPageSizes == {MaxSmallLimit, ORDERS_PAGE_LIMIT}

InitFetchOrders ==
    /\ \E n \in ChildCounts, limit \in FetchLimits, pattern \in ChildPatterns,
          pageSize \in ServerPageSizes, hasManager \in BOOLEAN :
           pager = [pc |-> "ordersCall", collection |-> [k \in 1..n |-> k],
                    pattern |-> pattern, limit |-> limit,
                    pageSize |-> pageSize, hasManager |-> hasManager,
                    orders |-> <<>>, hasNextPage |-> TRUE, cursor |-> None,
                    requests |-> 0, largestPage |-> 0, failed |-> FALSE,
                    returned |-> <<>>]
    /\ builder = Idle /\ scan = Idle /\ rebate = Idle /\ bot = Idle
    /\ runner = Idle /\ ui = Idle

\* fetchUserOpenOrders, step 1: without a BalanceManager the result is [].
OrdersFindBalanceManager ==
    /\ pager.pc = "ordersCall"
    /\ pager' = [pager EXCEPT
                   !.pc = IF pager.hasManager THEN "ordersLoop"
                          ELSE "ordersDone"]
    /\ UNCHANGED <<builder, scan, rebate, bot, runner, ui>>

\* One iteration of `while (hasNextPage && orders.length < limit)`.
OrdersFetchPage ==
    /\ pager.pc = "ordersLoop"
    /\ pager.hasNextPage /\ Len(pager.orders) < pager.limit
    /\ LET result == GetDynamicFields(
                         pager.collection, pager.cursor,
                         OrdersPageLimit(pager.limit, Len(pager.orders)),
                         pager.pageSize)
       IN  pager' = [pager EXCEPT
                       !.requests = pager.requests + 1,
                       !.largestPage = Max(pager.largestPage, Len(result.data)),
                       !.orders = PushOpenOrders(pager.orders, result.data,
                                                 pager.pattern),
                       !.hasNextPage = result.hasNextPage,
                       !.cursor = result.nextCursor]
    /\ UNCHANGED <<builder, scan, rebate, bot, runner, ui>>

\* getDynamicFields throws: the catch returns the orders collected so far.
OrdersFetchThrows ==
    /\ pager.pc = "ordersLoop"
    /\ pager.hasNextPage /\ Len(pager.orders) < pager.limit
    /\ pager' = [pager EXCEPT !.pc = "ordersDone",
                              !.requests = pager.requests + 1,
                              !.failed = TRUE,
                              !.returned = pager.orders]
    /\ UNCHANGED <<builder, scan, rebate, bot, runner, ui>>

\* Loop exit: `return orders` (enrichOrdersWithActualRebate only fills in
\* storageRebate; the list is returned as it is).
OrdersReturn ==
    /\ pager.pc = "ordersLoop"
    /\ ~(pager.hasNextPage /\ Len(pager.orders) < pager.limit)
    /\ pager' = [pager EXCEPT !.pc = "ordersDone", !.returned = pager.orders]
    /\ UNCHANGED <<builder, scan, rebate, bot, runner, ui>>

FetchOrdersNext ==
    \/ OrdersFindBalanceManager \/ OrdersFetchPage \/ OrdersFetchThrows
    \/ OrdersReturn

SpecFetchOrders == InitFetchOrders /\ [][FetchOrdersNext]_vars

\* C17: fetchUserOpenOrders with option limit = L (default 100) never returns
\* more than L orders, for any number of pages and any mix of open and
\* non-open orders, the gateway never returning more items in a page than the
\* page limit requested; what it returns are open orders, each at most once.
C17_FetchReturnsAtMostLimit ==
    /\ Len(pager.orders) <= pager.limit
    /\ Len(pager.returned) <= pager.limit
    /\ \A k \in 1..Len(pager.returned) :
           /\ ChildKind(pager.pattern, pager.returned[k]) = "open"
           /\ \A j \in 1..Len(pager.returned) :
                  pager.returned[j] = pager.returned[k] => j = k

\* 55 open orders with limit 51: a page of 50, then a page of the one order
\* still wanted.
C17_Witness ==
    /\ pager.pc = "ordersDone" /\ ~pager.failed
    /\ pager.pattern = "allOpen"
    /\ Len(pager.collection) = 55
    /\ pager.limit = 51
    /\ pager.requests = 2
    /\ Len(pager.returned) = 51

(***************************************************************************)
(* The library's scanPoolForExpiredOrders: the loop over the pool's ticks  *)
(* with its `limit` option.                                                *)
(***************************************************************************)
MaxTicks == 3

MaxPerTick == 3

MaxScanLimit == 4

DEFAULT_SCAN_LIMIT == 1000

\* scanPoolForExpiredOrders at the entry of its loop over the ticks.
ScanStart(ticks, limit) ==
    [pc |-> "ticksLoop", ticks |-> ticks, limit |-> limit, next |-> 1,
     allOrders |-> <<>>, ticksScanned |-> 0, unreadable |-> {},
     stoppedAtLimit |-> FALSE, totalOrders |-> 0]

\* The orders getTickOrders returns for tick t holding n orders.
TickOrders(t, n) == [k \in 1..n |-> [tick |-> t, index |-> k]]

\* The pool's ticks, as the number of orders each holds.
TickLists == UNION {[1..n -> 0..MaxPerTick] : n \in 0..MaxTicks}

ScanLimits == (1..MaxScanLimit) \cup {DEFAULT_SCAN_LIMIT}

InitScanLimit ==
    /\ \E ticks \in TickLists, limit \in ScanLimits :
           scan = ScanStart(ticks, limit)
    /\ builder = Idle /\ rebate = Idle /\ pager = Idle /\ bot = Idle
    /\ runner = Idle /\ ui = Idle

\* One iteration of `for (const tick of ticks)`: the tick's orders are pushed,
\* then `if (allOrders.length >= limit) break`.
ScanTick ==
    /\ scan.pc = "ticksLoop"
    /\ scan.next <= Len(scan.ticks)
    /\ LET orders == TickOrders(scan.next, scan.ticks[scan.next])
           all == scan.allOrders \o orders
       IN  scan' = [scan EXCEPT
                      !.allOrders = all,
                      !.ticksScanned = scan.ticksScanned + 1,
                      !.stoppedAtLimit = Len(all) >= scan.limit,
                      !.next = IF Len(all) >= scan.limit
                               THEN Len(scan.ticks) + 1 ELSE scan.next + 1]
    /\ UNCHANGED <<builder, rebate, pager, bot, runner, ui>>

\* getTickOrders failed to read the tick: it logs and returns [].
ScanTickUnreadable ==
    /\ scan.pc = "ticksLoop"
    /\ scan.next <= Len(scan.ticks)
    /\ scan' = [scan EXCEPT
                  !.ticksScanned = scan.ticksScanned + 1,
                  !.unreadable = scan.unreadable \cup {scan.next},
                  !.stoppedAtLimit = Len(scan.allOrders) >= scan.limit,
                  !.next = IF Len(scan.allOrders) >= scan.limit
                           THEN Len(scan.ticks) + 1 ELSE scan.next + 1]
    /\ UNCHANGED <<builder, rebate, pager, bot, runner, ui>>

\* After the loop: the result's totalOrders is allOrders.length.
ScanResult ==
    /\ scan.pc = "ticksLoop"
    /\ scan.next > Len(scan.ticks)
    /\ scan' = [scan EXCEPT !.pc = "scanDone",
                            !.totalOrders = Len(scan.allOrders)]
    /\ UNCHANGED <<builder, rebate, pager, bot, runner, ui>>

ScanLimitNext == ScanTick \/ ScanTickUnreadable \/ ScanResult

SpecScanLimit == InitScanLimit /\ [][ScanLimitNext]_vars

\* C18: the library's scanPoolForExpiredOrders with option limit = L scans at
\* most L orders: the returned totalOrders never exceeds L, whatever the
\* number of ticks and of orders per tick.
C18_TotalOrdersAtMostLimit ==
    /\ Len(scan.allOrders) <= scan.limit
    /\ scan.pc = "scanDone" => scan.totalOrders <= scan.limit

\* limit 2 on ticks of 1 and 3 orders: the scan stops after the second tick
\* and reports 4 orders.
C18_Witness ==
    /\ scan.pc = "scanDone"
    /\ scan.limit = 2
    /\ scan.ticks = <<1, 3>>
    /\ scan.stoppedAtLimit
    /\ scan.totalOrders = 4

(***************************************************************************)
(* scanSide of the janitor's scanPoolForExpiredOrders: one listing of the  *)
(* side's collection, its children fetched in groups of 50, both sides     *)
(* joined by Promise.all inside the scan's try/catch.                      *)
(***************************************************************************)
MaxSideSmall == 2

MULTI_GET_CHUNK == 50

Sides == {"bid", "ask"}

\* Number of children (slices) a side's collection holds, and the page sizes
\* the gateway serves when no limit is given.
SideCounts ==
    (0..MaxSideSmall) \cup {MULTI_GET_CHUNK, MULTI_GET_CHUNK + MaxSideSmall}

SidePageSizes ==
    {MaxSideSmall, MULTI_GET_CHUNK, MULTI_GET_CHUNK + MaxSideSmall}

\* The children of a side: references 1..n; each child holds one expired order
\* whose id is made of the side and the child's reference.
SideCollection(n) == [k \in 1..n |-> k]

ChildOrder(side, ref) ==
    [orderId |-> <<side, ref>>, side |-> side, isExpired |-> TRUE]

\* const fields = await this.client.getDynamicFields({ parentId }): one
\* request, no cursor, no limit.
SideListing(collection, pageSize) ==
    GetDynamicFields(collection, None, pageSize, pageSize).data

\* chunks.push(objectIds.slice(i, i + 50))
SideChunk(objectIds, g) ==
    Slice(objectIds, (g - 1) * MULTI_GET_CHUNK, g * MULTI_GET_CHUNK)

SideChunkCount(objectIds) ==
    (Len(objectIds) + MULTI_GET_CHUNK - 1) \div MULTI_GET_CHUNK

\* The expired orders found in the objects of one chunk.
ChunkOrders(side, chunk) ==
    [k \in 1..Len(chunk) |-> ChildOrder(side, chunk[k])]

SideTask ==
    [pc |-> "list", objectIds |-> <<>>, group |-> 1, outstanding |-> <<>>,
     orders |-> <<>>]

\* return [...bids, ...asks]
MergeSidesAsksFirst(bids, asks) == asks \o bids

MergeSides(bids, asks) == bids \o asks

InitSide ==
    /\ \E nb \in SideCounts, na \in SideCounts, pageSize \in SidePageSizes :
           scan = [pc |-> "sides", children |-> [bid |-> nb, ask |-> na],
                   pageSize |-> pageSize,
                   task |-> [s \in Sides |-> SideTask],
                   completionOrder |-> <<>>,
                   failedGroup |-> <<>>, result |-> <<>>]
    /\ builder = Idle /\ rebate = Idle /\ pager = Idle /\ bot = Idle
    /\ runner = Idle /\ ui = Idle

\* scanSide: the listing of the side's children and the chunking of their ids.
SideList ==
    /\ scan.pc = "sides"
    /\ \E s \in Sides :
           /\ scan.task[s].pc = "list"
           /\ scan' = [scan EXCEPT
                         !.task[s].pc = "groups",
                         !.task[s].objectIds =
                             SideListing(SideCollection(scan.children[s]),
                                         scan.pageSize)]
    /\ UNCHANGED <<builder, rebate, pager, bot, runner, ui>>

\* scanSide: `await this.client.multiGetObjects({ ids: chunk, ... })` for the
\* next chunk of the for loop: the request goes out and the task waits for it.
SideRequestGroup ==
    /\ scan.pc = "sides"
    /\ \E s \in Sides :
           LET t == scan.task[s]
           IN  /\ t.pc = "groups"
               /\ t.group <= SideChunkCount(t.objectIds)
               /\ scan' = [scan EXCEPT
                             !.task[s].pc = Await("awaitGroup", "groups"),
                             !.task[s].group = Await(t.group, t.group + 1),
                             !.task[s].outstanding =
                                 Append(t.outstanding, t.group)]
    /\ UNCHANGED <<builder, rebate, pager, bot, runner, ui>>

\* scanSide: the multiGetObjects awaited resolves; the expired orders of its
\* objects are pushed and the loop goes to the next chunk.
SideFetchGroup ==
    /\ scan.pc = "sides"
    /\ \E s \in Sides :
           LET t == scan.task[s]
           IN  /\ t.pc = "awaitGroup"
               /\ t.outstanding # <<>>
               /\ scan' = [scan EXCEPT
                             !.task[s].pc = "groups",
                             !.task[s].outstanding = Tail(t.outstanding),
                             !.task[s].orders =
                                 t.orders \o ChunkOrders(s,
                                     SideChunk(t.objectIds, t.outstanding[1])),
                             !.task[s].group = t.group + 1]
    /\ UNCHANGED <<builder, rebate, pager, bot, runner, ui>>

\* scanSide: the multiGetObjects awaited rejects.  Nothing in scanSide catches
\* it: the side's promise rejects, Promise.all rejects, and the scan's catch
\* logs the error and returns [].
SideFetchGroupFails ==
    /\ scan.pc = "sides"
    /\ \E s \in Sides :
           LET t == scan.task[s]
           IN  /\ t.pc = "awaitGroup"
               /\ t.outstanding # <<>>
               /\ scan' = [scan EXCEPT
                             !.pc = "done",
                             !.task[s].outstanding = Tail(t.outstanding),
                             !.failedGroup =
                                 <<[side |-> s, group |-> t.outstanding[1]]>>,
                             !.result = <<>>]
    /\ UNCHANGED <<builder, rebate, pager, bot, runner, ui>>

\* scanSide: all chunks done, `return orders`.
SideReturn ==
    /\ scan.pc = "sides"
    /\ \E s \in Sides :
           LET t == scan.task[s]
           IN  /\ t.pc = "groups"
               /\ t.group > SideChunkCount(t.objectIds)
               /\ scan' = [scan EXCEPT
                             !.task[s].pc = "returned",
                             !.completionOrder =
                                 Append(scan.completionOrder, s)]
    /\ UNCHANGED <<builder, rebate, pager, bot, runner, ui>>

\* Promise.all resolves: `return [...bids, ...asks]`.
SidesJoin ==
    /\ scan.pc = "sides"
    /\ \A s \in Sides : scan.task[s].pc = "returned"
    /\ scan' = [scan EXCEPT
                  !.pc = "done",
                  !.result = MergeSides(scan.task["bid"].orders,
                                        scan.task["ask"].orders)]
    /\ UNCHANGED <<builder, rebate, pager, bot, runner, ui>>

SideNext ==
    \/ SideList \/ SideRequestGroup \/ SideFetchGroup \/ SideFetchGroupFails
    \/ SideReturn \/ SidesJoin

SpecSide == InitSide /\ [][SideNext]_vars

\* The orders a scan result holds, as a set.
ResultOrders == {scan.result[k] : k \in 1..Len(scan.result)}

\* C19: scanSide collects the child object identifiers of every page of the
\* side's collection, so an expired order stored in a child on the second or a
\* later page is still returned by the scan.
C19_ScanSideCollectsEveryPage ==
    /\ \A s \in Sides :
           scan.task[s].pc \in {"groups", "returned"} =>
               scan.task[s].objectIds = SideCollection(scan.children[s])
    /\ (scan.pc = "done" /\ scan.failedGroup = <<>>) =>
           \A s \in Sides : \A ref \in 1..scan.children[s] :
               ChildOrder(s, ref) \in ResultOrders

\* 52 bid children served in pages of 50: the scan ended without any failure
\* and returned the orders of the first 50 children only.
C19_Witness ==
    /\ scan.pc = "done" /\ scan.failedGroup = <<>>
    /\ scan.pageSize = MULTI_GET_CHUNK
    /\ scan.children = [bid |-> MULTI_GET_CHUNK + 2, ask |-> 0]
    /\ Len(scan.result) = MULTI_GET_CHUNK
    /\ ChildOrder("bid", MULTI_GET_CHUNK + 1) \notin ResultOrders

\* C20: if the batched multi-fetch of one group of a side fails, only that
\* group contributes nothing: the expired orders found in the other groups of
\* that side and in the other side are still returned by the scan.
C20_FailedGroupOnlyLosesItself ==
    (scan.pc = "done" /\ scan.failedGroup # <<>>) =>
        LET failed == scan.failedGroup[1]
        IN  \A s \in Sides :
                LET listed == SideListing(SideCollection(scan.children[s]),
                                          scan.pageSize)
                IN  \A k \in 1..Len(listed) :
                        ~(s = failed.side
                          /\ (k - 1) \div MULTI_GET_CHUNK + 1 = failed.group) =>
                            ChildOrder(s, listed[k]) \in ResultOrders

\* One bid child and one ask child: the asks were read, the fetch of the bids'
\* only group failed, and the scan returned nothing.
C20_Witness ==
    /\ scan.pc = "done"
    /\ scan.children = [bid |-> 1, ask |-> 1]
    /\ scan.failedGroup = <<[side |-> "bid", group |-> 1]>>
    /\ scan.task["ask"].pc = "returned"
    /\ Len(scan.task["ask"].orders) = 1
    /\ scan.result = <<>>

(***************************************************************************)
(* Per-item decode failures, on the slice values of SpecExpiry (an item    *)
(* whose expire_timestamp is missing cannot be converted by BigInt).       *)
(***************************************************************************)

\* C21: if decoding one item fails, only that item is dropped: every other
\* decodable item is still decoded and returned -- by the janitor's scan every
\* other item that is expired, by the library's getTickOrders every other
\* item of the tick.
C21_OnlyUndecodableItemDropped ==
    /\ scan.jPc \in {"scanned", "built"} =>
           \A k \in 1..Len(scan.values) :
               (/\ scan.values[k].expire_timestamp # <<>>
                /\ InlineExpired(scan.values[k].expire_timestamp[1], scan.now))
                   => scan.values[k].order_id \in IdsOf(scan.jOrders)
    /\ scan.lPc \in {"scanned", "built"} =>
           \A k \in 1..Len(scan.values) :
               scan.values[k].expire_timestamp # <<>>
                   => scan.values[k].order_id \in IdsOf(scan.allOrders)

\* Two items: the first has no expire_timestamp, the second expired long ago;
\* the janitor's scan threw on the first and returned nothing.
C21_Witness ==
    /\ scan.jPc = "scanned"
    /\ scan.jThrew
    /\ Len(scan.values) = 2
    /\ scan.values[1].expire_timestamp = <<>>
    /\ scan.values[2].expire_timestamp = <<1>>
    /\ scan.now > 1
    /\ scan.jOrders = <<>>

\* The orders of a side in discovery order: child by child as listed.
DiscoveredOrders(s) ==
    LET listed == SideListing(SideCollection(scan.children[s]), scan.pageSize)
    IN  [k \in 1..Len(listed) |-> ChildOrder(s, listed[k])]

\* C22: the two sides are scanned as concurrent tasks, and for every
\* interleaving and completion order of their remote calls the merged result
\* is all bid-side orders in their discovery order followed by all ask-side
\* orders in their discovery order.
C22_MergedResultIsBidsThenAsks ==
    /\ \A s \in Sides :
           /\ Len(scan.task[s].orders) <= Len(DiscoveredOrders(s))
           /\ \A k \in 1..Len(scan.task[s].orders) :
                  scan.task[s].orders[k] = DiscoveredOrders(s)[k]
    /\ (scan.pc = "done" /\ scan.failedGroup = <<>>) =>
           scan.result = DiscoveredOrders("bid") \o DiscoveredOrders("ask")

\* The ask side completed before the bid side, and the result still lists the
\* two bid orders first.
C22_Witness ==
    /\ scan.pc = "done" /\ scan.failedGroup = <<>>
    /\ scan.completionOrder = <<"ask", "bid">>
    /\ scan.children = [bid |-> 2, ask |-> 1]
    /\ scan.result = <<ChildOrder("bid", 1), ChildOrder("bid", 2),
                       ChildOrder("ask", 1)>>

\* C23: within one side's scan the groups of at most 50 identifiers are
\* fetched one after another: at every instant at most one batched multi-fetch
\* is outstanding per side, hence at most two per pool.
C23_OneMultiFetchOutstandingPerSide ==
    /\ \A s \in Sides :
           /\ Len(scan.task[s].outstanding) <= 1
           /\ scan.task[s].pc # "awaitGroup" => scan.task[s].outstanding = <<>>
           /\ \A k \in 1..Len(scan.task[s].outstanding) :
                  /\ scan.task[s].outstanding[k] = scan.task[s].group
                  /\ Len(SideChunk(scan.task[s].objectIds,
                                   scan.task[s].outstanding[k]))
                         \in 1..MULTI_GET_CHUNK
    /\ Len(scan.task["bid"].outstanding) + Len(scan.task["ask"].outstanding)
           <= 2

\* The bid side has read its first group of 50 and waits for its second, while
\* the ask side waits for its first: two multi-fetches outstanding in the pool.
C23_Witness ==
    /\ scan.pc = "sides"
    /\ scan.task["bid"].outstanding = <<2>>
    /\ Len(scan.task["bid"].orders) = MULTI_GET_CHUNK
    /\ scan.task["ask"].outstanding = <<1>>

(***************************************************************************)
(* The library's scanPoolForExpiredOrders as a whole: getPoolTicks drains  *)
(* the pool's ticks page by page, then the loop reads tick after tick;     *)
(* any gateway read may fail.                                              *)
(***************************************************************************)
MaxPoolTicks == 4

MaxPoolPage == 2

InitLibraryScan ==
    /\ \E n \in 0..MaxPoolTicks, pageSize \in 1..MaxPoolPage :
           pager = PagerStart([k \in 1..n |-> k + MaxColl], pageSize)
    /\ builder = Idle /\ scan = Idle /\ rebate = Idle /\ bot = Idle
    /\ runner = Idle /\ ui = Idle

\* scanPoolForExpiredOrders: `const ticks = await this.getPoolTicks(poolId)`
\* has returned; the loop over the ticks starts.  Every tick of the pool holds
\* the same number of orders.
ScanTicksReturned ==
    /\ pager.pc = "done"
    /\ scan = Idle
    /\ \E perTick \in 1..MaxPerTick, limit \in ScanLimits :
           scan' = ScanStart([k \in 1..Len(pager.returned) |-> perTick], limit)
    /\ UNCHANGED <<builder, rebate, pager, bot, runner, ui>>

LibraryScanNext ==
    \/ TicksFetchPage \/ TicksFetchThrows \/ TicksReturn
    \/ ScanTicksReturned
    \/ ScanTick \/ ScanTickUnreadable \/ ScanResult

SpecLibraryScan == InitLibraryScan /\ [][LibraryScanNext]_vars

\* The positions, in the pool's enumeration, of the ticks of the page whose
\* request failed (none when no request failed).
FailedPageTicks ==
    IF pager.failed
    THEN (Len(pager.ticks) + 1)..(Len(pager.ticks)
                                   + Min(pager.pageSize, DYNAMIC_FIELDS_LIMIT))
    ELSE {}

\* The ticks that contributed their orders to the scan.
ContributingTicks == {scan.allOrders[k].tick : k \in 1..Len(scan.allOrders)}

\* C24: in the library scan a failure while fetching one tick or one page
\* contributes nothing for that portion, the remaining ticks are still
\* scanned, and the scan returns a result instead of raising, for every
\* pattern of gateway read failures: once the result is there (and the scan
\* was not cut short by its limit), the ticks that contributed are exactly the
\* pool's ticks outside the failed page whose own read did not fail.
C24_ReadFailureOnlyLosesItsPortion ==
    (scan.pc = "scanDone" /\ ~scan.stoppedAtLimit) =>
        ContributingTicks =
            ((1..Len(pager.collection)) \ FailedPageTicks) \ scan.unreadable

\* Three ticks served one per page; the request for the second page failed:
\* the first tick was scanned, the third never was.
C24_Witness ==
    /\ scan.pc = "scanDone" /\ ~scan.stoppedAtLimit
    /\ Len(pager.collection) = 3
    /\ pager.pageSize = 1
    /\ pager.failed
    /\ Len(pager.ticks) = 1
    /\ scan.unreadable = {}
    /\ ContributingTicks = {1}

\* The slice with every absent expire_timestamp replaced by 0.
ZeroForAbsent(values) ==
    [k \in 1..Len(values) |->
        [values[k] EXCEPT !.expire_timestamp =
            IF values[k].expire_timestamp = <<>> THEN Some(0)
            ELSE values[k].expire_timestamp]]

\* C25: an order whose expireTimestamp is absent is treated exactly like
\* expireTimestamp = 0: it is classified as not expired at every call site and
\* the scan continues with the remaining items, so both scans return what they
\* return for the same slice with 0 in place of every absent timestamp.
C25_AbsentTimestampTreatedLikeZero ==
    /\ scan.jPc \in {"scanned", "built"} =>
           scan.jOrders = JanitorScanResult(ZeroForAbsent(scan.values), scan.now)
    /\ scan.lPc \in {"scanned", "built"} =>
           /\ \A k \in 1..Len(scan.allOrders) :
                  scan.allOrders[k].expireTimestamp = <<>>
                      => ~IsOrderExpired(scan.allOrders[k], scan.now)
           /\ IdsOf(scan.filteredOrders) =
                  IdsOf(LibraryFilteredOrders(
                            LibraryAllOrders(ZeroForAbsent(scan.values)),
                            scan.onlyExpired, scan.now))

\* An expired order followed by one without expire_timestamp: both scans are
\* done; the janitor lost the expired order, the library kept it.
C25_Witness ==
    /\ scan.jPc = "scanned" /\ scan.lPc = "scanned"
    /\ scan.onlyExpired
    /\ Len(scan.values) = 2
    /\ scan.values[1].expire_timestamp = <<1>>
    /\ scan.values[2].expire_timestamp = <<>>
    /\ scan.now > 1
    /\ scan.jOrders = <<>>
    /\ IdsOf(scan.filteredOrders) = {1}

(***************************************************************************)
(* The builders called with any integer maxOrdersPerTransaction.  The loop *)
(* `for (let i = 0; i < orders.length; i += safeMaxOrders)` is one thread  *)
(* of control that runs to its exit unless its condition keeps holding:    *)
(* weak fairness of its steps.                                             *)
(***************************************************************************)
AnyRequests == (0 - MaxReq)..MaxReq

InitBuildAnyRequest ==
    /\ \E fn \in BuilderFns, orders \in ShortOrderLists,
          options \in {None} \cup {Some(m) : m \in AnyRequests} :
           builder = BuilderCall(fn, orders, options)
    /\ scan = Idle /\ rebate = Idle /\ pager = Idle /\ bot = Idle
    /\ runner = Idle /\ ui = Idle

SpecBuildAnyRequest ==
    InitBuildAnyRequest /\ [][BuilderNext]_vars /\ WF_vars(BuilderNext)

C28_ReturnedOrdersAreOpen ==
    /\ \A k \in 1..Len(pager.returned) :
           LET order == ParseDynamicFieldToOrder(pager.pattern, pager.returned[k])
           IN  /\ order # None
               /\ order[1].status = "OPEN"
               /\ order[1].filledQuantity = 0
    /\ \A k \in 1..Len(pager.collection) :
           LET order == ParseDynamicFieldToOrder(pager.pattern,
                                                 pager.collection[k])
           IN  order # None =>
                   /\ order[1].status = "OPEN" <=> order[1].filledQuantity = 0
                   /\ order[1].status = "PARTIALLY_FILLED"
                          <=> /\ 0 < order[1].filledQuantity
                              /\ order[1].filledQuantity < order[1].quantity
                   /\ order[1].status \in {"OPEN", "PARTIALLY_FILLED", "FILLED"}

\* Five children, one of each fill state (untouched, partially filled, filled,
\* no quantity fields at all, overfilled): the untouched one and the one
\* without fields are returned, the other three are not.
C28_Witness ==
    /\ pager.pc = "ordersDone"
    /\ pager.pattern = "fills"
    /\ ~pager.failed
    /\ Len(pager.collection) = 5
    /\ pager.returned = <<1, 4>>

\* The counts of the library's ScanResult, as its return statement fills them.
LibraryScanCounts(allOrders, filteredOrders) ==
    [totalOrders |-> Len(allOrders), expiredOrders |-> Len(filteredOrders)]

\* C29: in the result of the library scanPoolForExpiredOrders, expiredOrders
\* equals the number of scanned orders that are expired at currentTimestamp,
\* for both values of the onlyExpired option, and never exceeds totalOrders.
C29_ExpiredOrdersCountsTheExpired ==
    scan.lPc \in {"scanned", "built"} =>
        LET result == LibraryScanCounts(scan.allOrders, scan.filteredOrders)
        IN  /\ result.expiredOrders =
                   Cardinality({k \in 1..Len(scan.allOrders) :
                                   IsOrderExpired(scan.allOrders[k], scan.now)})
            /\ result.expiredOrders <= result.totalOrders

\* A scan with onlyExpired = false over one expired order and one that never
\* expires: expiredOrders is 2.
C29_Witness ==
    /\ scan.lPc = "scanned"
    /\ ~scan.onlyExpired
    /\ Len(scan.values) = 2
    /\ scan.values[1].expire_timestamp = <<1>>
    /\ scan.values[2].expire_timestamp = <<0>>
    /\ scan.now > 1
    /\ LibraryScanCounts(scan.allOrders, scan.filteredOrders).expiredOrders = 2

(***************************************************************************)
(* The web page: the scan button, handleScan and the deferred showResults. *)
(* A click is delivered only while the button is enabled; handleScan runs  *)
(* up to `await scanPool(...)`, and from its completion to the end of      *)
(* `finally`, without interruption; the timers, all of 500 ms, fire in the *)
(* order they were set.                                                    *)
(***************************************************************************)
MaxScans == 3

MOCK_EXPIRED_ORDERS == 8

\* showResults(result) for the result of scan `id`.
ShowResults(u, id) ==
    [u EXCEPT !.resultPanel = "block",
              !.shown = id,
              !.executeBtn = IF MOCK_EXPIRED_ORDERS = 0 THEN "none"
                             ELSE "inline-flex"]

InitWebScan ==
    /\ ui = [pc |-> "ready", scanBtnDisabled |-> FALSE,
             progressPanel |-> "none", resultPanel |-> "none",
             executionPanel |-> "none", executeBtn |-> "default",
             scans |-> 0, scanResult |-> 0, timers |-> <<>>, shown |-> 0,
             alert |-> "none"]
    /\ builder = Idle /\ scan = Idle /\ rebate = Idle /\ pager = Idle
    /\ bot = Idle /\ runner = Idle

\* A click on the scan button with an empty pool id or private key: alert,
\* return.
HandleScanRejectsInput ==
    /\ ui.pc = "ready"
    /\ ~ui.scanBtnDisabled
    /\ \E missing \in {"poolId", "privateKey"} :
           ui' = [ui EXCEPT !.alert = missing]
    /\ UNCHANGED <<builder, scan, rebate, pager, bot, runner>>

\* A click on the scan button with valid input: handleScan up to
\* `await scanPool(...)`.
HandleScanStarts ==
    /\ ui.pc = "ready"
    /\ ~ui.scanBtnDisabled
    /\ ui.scans < MaxScans
    /\ ui' = [ui EXCEPT !.pc = "scanning",
                        !.progressPanel = "block",
                        !.resultPanel = "none",
                        !.executionPanel = "none",
                        !.scanBtnDisabled = TRUE,
                        !.scans = ui.scans + 1]
    /\ UNCHANGED <<builder, scan, rebate, pager, bot, runner>>

\* scanPool resolves: scanResult = result, setTimeout(showResults, 500), and
\* `finally` enables the button again.
HandleScanCompletes ==
    /\ ui.pc = "scanning"
    /\ ui' = [ui EXCEPT !.pc = "ready",
                        !.scanResult = ui.scans,
                        !.timers = Append(ui.timers, ui.scans),
                        !.scanBtnDisabled = FALSE]
    /\ UNCHANGED <<builder, scan, rebate, pager, bot, runner>>

\* scanPool rejects: the catch alerts, `finally` enables the button again.
HandleScanFails ==
    /\ ui.pc = "scanning"
    /\ ui' = [ui EXCEPT !.pc = "ready",
                        !.alert = "scanFailed",
                        !.scanBtnDisabled = FALSE]
    /\ UNCHANGED <<builder, scan, rebate, pager, bot, runner>>

\* The oldest pending timer fires: showResults(result) of its scan.
TimerFires ==
    /\ ui.timers # <<>>
    /\ ui' = [ShowResults(ui, Head(ui.timers)) EXCEPT !.timers = Tail(ui.timers)]
    /\ UNCHANGED <<builder, scan, rebate, pager, bot, runner>>

WebScanNext ==
    \/ HandleScanRejectsInput
    \/ HandleScanStarts
    \/ HandleScanCompletes
    \/ HandleScanFails
    \/ TimerFires

SpecWebScan == InitWebScan /\ [][WebScanNext]_vars

\* C30: in the web UI, while a scan started by handleScan is in progress the
\* result panel stays hidden: the deferred display (500 ms after completion)
\* of an earlier scan's result can never show the result panel and the execute
\* button during a later scan, for any sequence of scan-button clicks and
\* timer firings.
C30_ResultPanelHiddenWhileScanning ==
    ui.pc = "scanning" => ui.resultPanel = "none"

\* The second scan is in progress and the panel shows the first scan's
\* result, with the execute button.
C30_Witness ==
    /\ ui.pc = "scanning"
    /\ ui.scans = 2
    /\ ui.scanBtnDisabled
    /\ ui.timers = <<>>
    /\ ui.resultPanel = "block"
    /\ ui.shown = 1
    /\ ui.executeBtn = "inline-flex"

(***************************************************************************)
(* The janitor's decoding of one returned object.  A wrapped value is the  *)
(* payload together with the keys that lead to it: reading a key of a      *)
(* wrapped value yields what lies under it when that key is its outermost  *)
(* layer, and undefined otherwise.                                         *)
(***************************************************************************)
MaxLayers == 2

MaxSliceItems == 2

\* n nested value-then-fields layers.
RECURSIVE Layers(_)
Layers(n) == IF n = 0 THEN <<>> ELSE <<"value", "fields">> \o Layers(n - 1)

\* The wrappings met around a slice and around an element: 0..MaxLayers
\* value-then-fields layers, a bare `value`, a bare `fields`.
WrapperPaths ==
    {Layers(n) : n \in 0..MaxLayers} \cup {<<"value">>, <<"fields">>}

\* o[key]
Member(o, key) ==
    IF o.path # <<>> /\ Head(o.path) = key
    THEN Some([o EXCEPT !.path = Tail(o.path)])
    ELSE None

\* `if (x.fields) x = x.fields`
UnwrapFields(o) ==
    IF IsSome(Member(o, "fields")) THEN Member(o, "fields")[1] ELSE o

\* scanSide, the loop over slice.values.
RECURSIVE ScanSliceItems(_, _, _, _)
ScanSliceItems(values, k, now, orders) ==
    IF k > Len(values) THEN orders
    ELSE LET item == UnwrapFields(values[k])
         IN  ScanSliceItems(values, k + 1, now,
                 IF /\ item.path = <<>>
                    /\ IsSome(item.order_id)
                    /\ InlineExpired(item.expire_timestamp, now)
                 THEN Append(orders,
                          [orderId |-> item.order_id[1],
                           expireTimestamp |-> ToNumber(item.expire_timestamp),
                           isExpired |-> TRUE])
                 ELSE orders)

\* scanSide, the body of `for (const obj of objects)` for a move object whose
\* content.fields is `wrapper`.
ScanObject(wrapper, now) ==
    IF Member(wrapper, "value") = None THEN <<>>
    ELSE LET slice == UnwrapFields(Member(wrapper, "value")[1])
         IN  IF slice.path # <<>> THEN <<>>
             ELSE ScanSliceItems(slice.values, 1, now, <<>>)

\* The elements of a slice: element k has order id k or none, any wrapping,
\* and expired two time units ago or never expires.
SliceItems ==
    UNION {{[k \in 1..n |->
               [path |-> f[k][1],
                order_id |-> IF f[k][2] THEN Some(k) ELSE None,
                expire_timestamp |-> f[k][3]]] :
               f \in [1..n -> WrapperPaths \X BOOLEAN \X {0, 1}]} :
           n \in 1..MaxSliceItems}

InitUnwrap ==
    /\ \E path \in WrapperPaths, values \in SliceItems :
           scan = [pc |-> "object",
                   wrapper |-> [path |-> path, values |-> values],
                   now |-> 3, orders |-> <<>>]
    /\ builder = Idle /\ rebate = Idle /\ pager = Idle /\ bot = Idle
    /\ runner = Idle /\ ui = Idle

\* The object is decoded.
UnwrapObject ==
    /\ scan.pc = "object"
    /\ scan' = [scan EXCEPT !.pc = "objectDone",
                            !.orders = ScanObject(scan.wrapper, scan.now)]
    /\ UNCHANGED <<builder, rebate, pager, bot, runner, ui>>

UnwrapNext == UnwrapObject

SpecUnwrap == InitUnwrap /\ [][UnwrapNext]_vars

\* C26: for every returned object, whatever the number (0, 1, 2, ...) of
\* nested value-then-fields wrapper layers around the slice payload and around
\* each of its elements, the scan unwraps all of them and decodes every
\* element that carries a non-empty order identifier: every such element that
\* is expired is in the scan's result.
C26_EveryWrappingIsUnwrapped ==
    scan.pc = "objectDone" =>
        \A k \in 1..Len(scan.wrapper.values) :
            LET item == scan.wrapper.values[k]
            IN  (/\ scan.wrapper.path \in {Layers(n) : n \in 0..MaxLayers}
                 /\ item.path \in {Layers(n) : n \in 0..MaxLayers}
                 /\ IsSome(item.order_id)
                 /\ InlineExpired(item.expire_timestamp, scan.now))
                    => item.order_id[1] \in IdsOf(scan.orders)

\* The slice lies under two value-then-fields layers, its one element is
\* unwrapped and expired: nothing was decoded.
C26_Witness ==
    /\ scan.pc = "objectDone"
    /\ scan.wrapper.path = Layers(2)
    /\ Len(scan.wrapper.values) = 1
    /\ scan.wrapper.values[1].path = <<>>
    /\ scan.wrapper.values[1].order_id = Some(1)
    /\ scan.wrapper.values[1].expire_timestamp = 1
    /\ scan.orders = <<>>

====
